---- MODULE Spec2Model ----
(***************************************************************************)
(* Model of the aceInterview Python backend: the Pydantic-AI agents        *)
(* (base_agent.py and its four subclasses), the question orchestrator      *)
(* (orchestrator.py) and the performance orchestrator                      *)
(* (performance_orchestrator.py).                                          *)
(*                                                                         *)
(* Conventions.                                                            *)
(*  - A Python call that may raise is modelled by a record with a field    *)
(*    `raised`; a raising call carries the value None.                     *)
(*  - The language-model call (self.agent.run) is the only external        *)
(*    boundary of an agent; its outcome is an input of every action:       *)
(*    either it fails, or it yields some schema-valid value.               *)
(*  - Text is modelled by what the code reads of it.  A response text is   *)
(*    its length and the two lexical cues the fallbacks test; a topic is   *)
(*    a sequence of tokens on which lower() and replace(" ", "_") act.     *)
(*  - Fractional scores (response_length / 50, response_length / 40) are   *)
(*    kept exact: a score inside an analysis dict is an integer number of  *)
(*    1/ScoreDen units.  round() is Python's round-half-to-even.           *)
(*  - Fields that are free prose and decide nothing (strengths,            *)
(*    improvements, feedback, recommendations, executive_summary,          *)
(*    next_steps, trends, reasoning) are left out of the records.          *)
(***************************************************************************)
EXTENDS Integers, Sequences, FiniteSets, TLC

None == "None"

Min(a, b) == IF a <= b THEN a ELSE b
Max(a, b) == IF a >= b THEN a ELSE b

\* Python 3 round(a / b) for b > 0: nearest integer, ties to even.
Round(a, b) ==
    LET q == a \div b
        r == a % b
    IN  IF 2 * r < b THEN q
        ELSE IF 2 * r > b THEN q + 1
        ELSE IF q % 2 = 0 THEN q ELSE q + 1

RECURSIVE SumSeq(_)
SumSeq(s) == IF s = << >> THEN 0 ELSE Head(s) + SumSeq(Tail(s))

\* s[:n]
Take(s, n) == SubSeq(s, 1, Min(n, Len(s)))

\* str.startswith on token sequences
StartsWith(s, p) == Len(p) <= Len(s) /\ SubSeq(s, 1, Len(p)) = p

(***************************************************************************)
(* models/interview_models.py                                              *)
(***************************************************************************)
Styles == {"technical", "hr", "behavioral", "salary-negotiation", "case-study"}
ExperienceLevels == {"fresher", "junior", "mid-level", "senior", "lead-manager"}
PerformanceLevels == {"excellent", "good", "fair", "needs_improvement"}
ScoreKeys == {"clarity", "structure", "technical", "communication", "confidence", "relevance"}

\* common denominator of the fractions response_length / 50 and response_length / 40
ScoreDen == 50 * 4

\* ResponseAnalysis(**scores): six integers, each validated ge=0, le=100
ResponseAnalysis(scores) ==
    IF \A k \in ScoreKeys : scores[k] >= 0 /\ scores[k] <= 100
    THEN [raised |-> FALSE, value |-> scores]
    ELSE [raised |-> TRUE, value |-> None]

\* PerformanceAnalytics(...): overall_score validated ge=0, le=100,
\* performance_level a member of the Literal, response_analysis built first
PerformanceAnalytics(overall_score, performance_level, scores, question_reviews, metadata) ==
    LET ra == ResponseAnalysis(scores)
    IN  IF ra.raised \/ overall_score < 0 \/ overall_score > 100
           \/ performance_level \notin PerformanceLevels
        THEN [raised |-> TRUE, value |-> None]
        ELSE [raised |-> FALSE,
              value |-> [overall_score |-> overall_score,
                         performance_level |-> performance_level,
                         response_analysis |-> ra.value,
                         question_reviews |-> question_reviews,
                         metadata |-> metadata]]

(***************************************************************************)
(* Text.  A topic is a sequence of tokens; " " and "_" are separator       *)
(* tokens.  lower() and replace(" ", "_") act token by token.              *)
(***************************************************************************)
Lower(tok) ==
    CASE tok = "React" -> "react"
      [] tok = "Frontend" -> "frontend"
      [] OTHER -> tok

LowerSeq(s) == [i \in 1..Len(s) |-> Lower(s[i])]

ReplaceSpace(s) == [i \in 1..Len(s) |-> IF s[i] = " " THEN "_" ELSE s[i]]

\* key in topic_lower, for a key that is one token long
Contains(s, tok) == \E i \in 1..Len(s) : s[i] = tok

\* A response text: len(response), '.' in response, 'i think' in response.lower().
\* A text holding "." has a character, one holding "i think" has seven.
IsText(t) ==
    /\ t.len >= 0
    /\ t.dot => t.len >= 1
    /\ t.ithink => t.len >= 7
    /\ (t.dot /\ t.ithink) => t.len >= 8

(***************************************************************************)
(* agents/topic_analysis_agent.py                                          *)
(***************************************************************************)
fallback_mappings ==
    [frontend |->
        [main_concepts |-> <<"User Interface", "User Experience", "Web Development", "Client-side Programming">>,
         focus_areas |-> <<"Component Design", "State Management", "Performance Optimization", "Responsive Design">>],
     backend |->
        [main_concepts |-> <<"Server-side Development", "API Design", "Database Management", "System Architecture">>,
         focus_areas |-> <<"API Design", "Database Optimization", "Security", "Scalability">>],
     javascript |->
        [main_concepts |-> <<"Programming Fundamentals", "Asynchronous Programming", "Object-Oriented Programming">>,
         focus_areas |-> <<"Language Features", "Best Practices", "Performance", "Modern JavaScript">>],
     generic |->
        [main_concepts |-> <<"Technical Knowledge", "Problem Solving", "Best Practices">>,
         focus_areas |-> <<"Core Concepts", "Practical Application", "Industry Standards">>]]

complexity_map(experience_level) ==
    CASE experience_level = "fresher" -> "low"
      [] experience_level \in {"junior", "mid-level"} -> "medium"
      [] experience_level \in {"senior", "lead-manager"} -> "high"
      [] OTHER -> "medium"

\* TopicAnalysisAgent.generate_fallback_result: first matching table row in
\* dict order, else the generic row
TopicAnalysisAgent_generate_fallback_result(config) ==
    LET topic_lower == LowerSeq(config.topic)
        row == IF Contains(topic_lower, "frontend") THEN "frontend"
               ELSE IF Contains(topic_lower, "backend") THEN "backend"
               ELSE IF Contains(topic_lower, "javascript") THEN "javascript"
               ELSE "generic"
    IN  [raised |-> FALSE,
         value |-> [main_concepts |-> fallback_mappings[row].main_concepts,
                    focus_areas |-> fallback_mappings[row].focus_areas,
                    complexity |-> complexity_map(config.experience_level),
                    question_categories |-> <<config.style, "fundamentals", "practical">>]]

(***************************************************************************)
(* agents/question_generation_agent.py                                     *)
(* A question text is a record: a template of one of the static tables     *)
(* with the topic interpolated, or free text returned by the model.        *)
(***************************************************************************)
TemplatesPerBucket == 3

Question(kind, table, bucket, index, topic, text) ==
    [kind |-> kind, table |-> table, bucket |-> bucket, index |-> index,
     topic |-> topic, text |-> text]

\* text produced by the model ("" is a valid str)
ModelQuestion(text) == Question("model", None, None, 0, None, text)

\* every template of every table is a non-empty f-string
IsEmptyText(q) == q.kind = "model" /\ q.text = ""

\* difficulty_map with 'junior' entered as 'easy'
difficulty_map_junior_easy(experience_level) ==
    CASE experience_level \in {"fresher", "junior"} -> "easy"
      [] experience_level = "mid-level" -> "medium"
      [] experience_level \in {"senior", "lead-manager"} -> "hard"
      [] OTHER -> "medium"

\* difficulty_map with 'senior' entered as 'medium'
difficulty_map_senior_medium(experience_level) ==
    CASE experience_level = "fresher" -> "easy"
      [] experience_level \in {"junior", "mid-level", "senior"} -> "medium"
      [] experience_level = "lead-manager" -> "hard"
      [] OTHER -> "medium"

difficulty_map(experience_level) ==
    CASE experience_level = "fresher" -> "easy"
      [] experience_level \in {"junior", "mid-level"} -> "medium"
      [] experience_level \in {"senior", "lead-manager"} -> "hard"
      [] OTHER -> "medium"

\* QuestionGenerationAgent.generate_fallback_result; choice is the index
\* random.choice picks in the bucket
QuestionGenerationAgent_generate_fallback_result(config, choice) ==
    LET difficulty == difficulty_map(config.experience_level)
        table == IF config.style \in {"technical", "hr", "behavioral"}
                 THEN config.style ELSE "technical"
    IN  [raised |-> FALSE,
         value |-> [question |-> Question("agent_template", table, difficulty, choice, config.topic, None),
                    metadata |-> [category |-> config.style, difficulty |-> difficulty,
                                  focus_area |-> "General Knowledge",
                                  concepts |-> <<"Core Concepts">>,
                                  question_type |-> "theoretical"]]]

(***************************************************************************)
(* agents/response_analysis_agent.py                                       *)
(***************************************************************************)
\* LengthScore without the outer min(hi, ...)
LengthScore_nocap(lo, hi, base, div, response_length) ==
    Max(lo * ScoreDen, base * ScoreDen + response_length * (ScoreDen \div div))

\* min(hi, max(lo, base + response_length / div)) in 1/ScoreDen units
LengthScore(lo, hi, base, div, response_length) ==
    Min(hi * ScoreDen, Max(lo * ScoreDen, base * ScoreDen + response_length * (ScoreDen \div div)))

\* the overall score with int() in place of round()
fallback_overall_score_truncated(clarity, structure, technical, communication, confidence, relevance) ==
    (clarity + communication + (structure + technical + confidence + relevance) * ScoreDen)
        \div (6 * ScoreDen)

\* overall_score = round((clarity + ... + relevance) / 6); clarity and
\* communication are in 1/ScoreDen units, the other four are integers
fallback_overall_score(clarity, structure, technical, communication, confidence, relevance) ==
    Round(clarity + communication + (structure + technical + confidence + relevance) * ScoreDen,
          6 * ScoreDen)

\* ResponseAnalysisAgent.generate_fallback_result
ResponseAnalysisAgent_generate_fallback_result(response, config) ==
    LET clarity == LengthScore(60, 95, 70, 50, response.len)
        structure == IF response.dot /\ response.len > 50 THEN 75 ELSE 65
        technical == IF config.style = "technical" THEN 70 ELSE 75
        communication == LengthScore(60, 90, 65, 40, response.len)
        confidence == IF response.ithink THEN 65 ELSE 75
        relevance == 75
        overall_score == fallback_overall_score(clarity, structure, technical, communication,
                                                confidence, relevance)
        ra == ResponseAnalysis([clarity |-> Round(clarity, ScoreDen),
                                structure |-> structure,
                                technical |-> technical,
                                communication |-> Round(communication, ScoreDen),
                                confidence |-> confidence,
                                relevance |-> relevance])
    IN  IF ra.raised THEN [raised |-> TRUE, value |-> None]
        ELSE [raised |-> FALSE,
              value |-> [response_analysis |-> ra.value,
                         score |-> overall_score]]

\* ResponseAnalysisResult.model_dump(): the dict stored under "analysis";
\* its six scores are integers, kept here in 1/ScoreDen units
model_dump(result) ==
    [response_analysis |-> [k \in ScoreKeys |-> result.response_analysis[k] * ScoreDen],
     score |-> result.score]

(***************************************************************************)
(* agents/overall_analysis_agent.py                                        *)
(***************************************************************************)
\* the if / elif chain of OverallAnalysisAgent.generate_fallback_result
\* the chain with the cut-offs of generate_fallback_overall_analysis
performance_level_of_cut80(overall_score) ==
    IF overall_score >= 80 THEN "good"
    ELSE IF overall_score >= 60 THEN "fair"
    ELSE "needs_improvement"

performance_level_of(overall_score) ==
    IF overall_score >= 85 THEN "excellent"
    ELSE IF overall_score >= 70 THEN "good"
    ELSE IF overall_score >= 60 THEN "fair"
    ELSE "needs_improvement"

\* the question_reviews list built in the loop over response_analyses
agent_question_reviews(response_analyses) ==
    [i \in 1..Len(response_analyses) |->
        [question_id |-> response_analyses[i].question_id,
         question |-> response_analyses[i].question,
         response |-> response_analyses[i].response,
         score |-> response_analyses[i].analysis.score]]

\* OverallAnalysisAgent.generate_fallback_result
OverallAnalysisAgent_generate_fallback_result(response_analyses) ==
    IF response_analyses = << >>
    THEN PerformanceAnalytics(70, "fair", [k \in ScoreKeys |-> 70], << >>,
                              [fallback |-> TRUE, total_responses |-> 0])
    ELSE
        LET num_responses == Len(response_analyses)
            avg_scores == [k \in ScoreKeys |->
                Round(SumSeq([i \in 1..num_responses |->
                                 response_analyses[i].analysis.response_analysis[k]]),
                      ScoreDen * num_responses)]
            total_score == SumSeq([i \in 1..num_responses |-> response_analyses[i].analysis.score])
            overall_score == Round(total_score, num_responses)
        IN  PerformanceAnalytics(overall_score, performance_level_of(overall_score), avg_scores,
                                 agent_question_reviews(response_analyses),
                                 [fallback |-> TRUE, total_responses |-> num_responses,
                                  analysis_method |-> "fallback"])

(***************************************************************************)
(* agents/base_agent.py                                                    *)
(***************************************************************************)
\* The outcome of `await self.agent.run(prompt)`: it raises, or result.data
\* is some value of the agent's result type.
RunFailed == [failed |-> TRUE, data |-> None]
RunData(d) == [failed |-> FALSE, data |-> d]

\* execute with one retry of the model call before falling back
execute_retry(run, fallback_result) ==
    IF ~run.failed
    THEN [raised |-> FALSE, value |-> run.data, from_fallback |-> FALSE, model_calls |-> 1]
    ELSE [raised |-> fallback_result.raised, value |-> fallback_result.value,
          from_fallback |-> TRUE, model_calls |-> 2]

\* execute with the except clause re-raising instead of falling back
execute_reraise(run, fallback_result) ==
    IF ~run.failed
    THEN [raised |-> FALSE, value |-> run.data, from_fallback |-> FALSE, model_calls |-> 1]
    ELSE [raised |-> TRUE, value |-> None, from_fallback |-> FALSE, model_calls |-> 1]

\* BaseAgent.execute: one model call inside the try; the except clause
\* returns generate_fallback_result(...), which runs outside any try.
\* from_fallback and model_calls record the path taken.
execute(run, fallback_result) ==
    IF ~run.failed
    THEN [raised |-> FALSE, value |-> run.data, from_fallback |-> FALSE, model_calls |-> 1]
    ELSE [raised |-> fallback_result.raised, value |-> fallback_result.value,
          from_fallback |-> TRUE, model_calls |-> 1]

(***************************************************************************)
(* Inputs.                                                                 *)
(***************************************************************************)
Topics == {<<"React">>, <<"react">>, <<"Frontend">>, <<"React", " ", "technical", " ", "senior">>}

InterviewConfig(topic, style, experience_level) ==
    [topic |-> topic, style |-> style, experience_level |-> experience_level, duration |-> 30]

Configs == {InterviewConfig(t, s, e) : t \in Topics, s \in Styles, e \in ExperienceLevels}

\* response lengths around the fallbacks' break points (0, 50 / 51, the
\* caps at 1000 and 1250), on both sides of clarity 70.5 (25 / 26) and
\* beyond 10,000
TextLengths == {0, 8, 25, 26, 50, 51, 990, 1000, 1250, 10001}

Texts == {t \in [len : TextLengths, dot : BOOLEAN, ithink : BOOLEAN] : IsText(t)}

\* schema-valid values the model may return
ModelTopicAnalyses ==
    {[main_concepts |-> << >>, focus_areas |-> << >>, complexity |-> "low",
      question_categories |-> << >>],
     [main_concepts |-> <<"Hooks", "State", "JSX">>, focus_areas |-> <<"Hooks", "Rendering">>,
      complexity |-> "high", question_categories |-> <<"technical">>]}

ModelQuestionTexts == {"", "Explain the virtual DOM."}

ModelQuestionResults ==
    {[question |-> ModelQuestion(t),
      metadata |-> [category |-> "technical", difficulty |-> "easy", focus_area |-> "Hooks",
                    concepts |-> <<"Hooks">>, question_type |-> "practical"]] : t \in ModelQuestionTexts}

\* ResponseAnalysisResult.score is a plain int: no bounds
ModelScores == {-5, 5, 60, 70, 90, 150}

ModelResponseResults ==
    {[response_analysis |-> [k \in ScoreKeys |-> a], score |-> sc] : a \in {0, 80, 100}, sc \in ModelScores}

ModelAnalytics ==
    {[overall_score |-> 92, performance_level |-> "needs_improvement",
      response_analysis |-> [k \in ScoreKeys |-> 90], question_reviews |-> << >>,
      metadata |-> << >>],
     [overall_score |-> 70, performance_level |-> "good",
      response_analysis |-> [k \in ScoreKeys |-> 70], question_reviews |-> << >>,
      metadata |-> [fallback |-> FALSE]]}

(***************************************************************************)
(* agents/performance_orchestrator.py                                      *)
(***************************************************************************)
\* A duration too large to convert to float: true division of it raises
\* OverflowError.
Huge == "huge"

\* PerformanceAnalysisOrchestrator.get_session_id
perf_get_session_id(config, responses) ==
    LET timestamp == IF responses # << >> THEN responses[1].timestamp ELSE 0
    IN  LowerSeq(ReplaceSpace(config.topic \o <<"_", config.style, "_", ToString(timestamp)>>))

\* PerformanceAnalysisOrchestrator.generate_fallback_response_analysis: a
\* plain dict, its scores are unrounded floats
generate_fallback_response_analysis(response, config) ==
    [response_analysis |->
        [clarity |-> LengthScore(60, 95, 70, 50, response.len),
         structure |-> (IF response.dot THEN 75 ELSE 65) * ScoreDen,
         technical |-> (IF config.style = "technical" THEN 70 ELSE 75) * ScoreDen,
         communication |-> LengthScore(60, 90, 65, 40, response.len),
         confidence |-> (IF response.ithink THEN 65 ELSE 75) * ScoreDen,
         relevance |-> 75 * ScoreDen],
     score |-> 75]

\* One pass of the loop body of analyze_individual_responses for the item at
\* 0-based index i.  outcome.run is the outcome of the model call;
\* outcome.err says that an exception reaches the loop's except clause.
\* entry is the dict appended, call the agent invocation made.
analyze_item(i, response, config, outcome) ==
    LET question_number == i + 1
        analysis_result == execute(outcome.run,
                               ResponseAnalysisAgent_generate_fallback_result(response.response, config))
        failed == outcome.err \/ analysis_result.raised
    IN  [entry |->
            [question_id |-> response.question_id,
             question |-> response.question,
             response |-> response.response,
             timestamp |-> response.timestamp,
             analysis |-> IF failed
                          THEN generate_fallback_response_analysis(response.response, config)
                          ELSE model_dump(analysis_result.value),
             metadata |-> IF failed THEN [fallback |-> TRUE, analyzed_at |-> "2024-01-01T00:00:00Z"]
                          ELSE [analyzed_at |-> "2024-01-01T00:00:00Z"]],
         call |-> [agent |-> "ResponseAnalysisAgent", question |-> response.question,
                   response |-> response.response, question_number |-> question_number]]

\* analyze_individual_responses with one try around the whole loop: the
\* first failing item ends the batch
analyze_individual_responses_abort(responses, config, outcomes) ==
    LET items == [n \in 1..Len(responses) |-> analyze_item(n - 1, responses[n], config, outcomes[n])]
        bad == {n \in 1..Len(responses) : outcomes[n].err}
        last == IF bad = {} THEN Len(responses) ELSE (CHOOSE n \in bad : \A m \in bad : n <= m) - 1
    IN  [list |-> [n \in 1..last |-> items[n].entry],
         calls |-> [n \in 1..last |-> items[n].call]]

\* PerformanceAnalysisOrchestrator.analyze_individual_responses: the list
\* returned and the agent invocations in the order they were made
analyze_individual_responses(responses, config, outcomes) ==
    LET items == [n \in 1..Len(responses) |-> analyze_item(n - 1, responses[n], config, outcomes[n])]
    IN  [list |-> [n \in 1..Len(responses) |-> items[n].entry],
         calls |-> [n \in 1..Len(responses) |-> items[n].call]]

\* PerformanceAnalysisOrchestrator.generate_fallback_overall_analysis
generate_fallback_overall_analysis(response_analyses, config) ==
    LET n == IF response_analyses = << >> THEN 1 ELSE Len(response_analyses)
        \* avg_score = total / n
        total == IF response_analyses = << >> THEN 70
                 ELSE SumSeq([i \in 1..Len(response_analyses) |-> response_analyses[i].analysis.score])
        performance_level == IF total >= 80 * n THEN "good"
                             ELSE IF total >= 60 * n THEN "fair"
                             ELSE "needs_improvement"
    IN  PerformanceAnalytics(Round(total, n), performance_level,
                             [clarity |-> Round(total, n),
                              structure |-> Round(total - 5 * n, n),
                              technical |-> Round(total, n),
                              communication |-> Round(total, n),
                              confidence |-> Round(total - 10 * n, n),
                              relevance |-> Round(total, n)],
                             << >>,
                             [fallback |-> TRUE, total_responses |-> Len(response_analyses),
                              analysis_method |-> "fallback"])

\* building the session_metadata dict of generate_overall_analysis raises
\* OverflowError when sum(r.duration or 0 ...) / len(responses) overflows
session_metadata_raises(responses) ==
    \E i \in 1..Len(responses) : responses[i].duration = Huge

\* PerformanceAnalysisOrchestrator.generate_overall_analysis
generate_overall_analysis(response_analyses, config, responses, run) ==
    LET overall_result == execute(run, OverallAnalysisAgent_generate_fallback_result(response_analyses))
        local == generate_fallback_overall_analysis(response_analyses, config)
    IN  IF session_metadata_raises(responses)
        THEN [raised |-> local.raised, value |-> local.value, path |-> "local_fallback",
              calls |-> << >>]
        ELSE IF overall_result.raised
        THEN [raised |-> local.raised, value |-> local.value, path |-> "local_fallback",
              calls |-> <<"OverallAnalysisAgent">>]
        ELSE [raised |-> FALSE, value |-> overall_result.value,
              path |-> IF overall_result.from_fallback THEN "agent_fallback" ELSE "model",
              calls |-> <<"OverallAnalysisAgent">>]

\* the question_reviews list of generate_fallback_analytics
fallback_question_reviews(responses) ==
    [n \in 1..Len(responses) |->
        [question_id |-> responses[n].question_id,
         question |-> responses[n].question,
         response |-> responses[n].response,
         score |-> 70 + (n - 1) * 5]]

\* PerformanceAnalysisOrchestrator.generate_fallback_analytics
generate_fallback_analytics(responses, config) ==
    PerformanceAnalytics(75, "fair",
                         [clarity |-> 75, structure |-> 70, technical |-> 80,
                          communication |-> 75, confidence |-> 70, relevance |-> 75],
                         fallback_question_reviews(responses),
                         [generated_at |-> "2024-01-01T00:00:00Z", analysis_method |-> "fallback",
                          total_responses |-> Len(responses), framework |-> "Pydantic AI"])

\* generate_comprehensive_analytics without its except clause
generate_comprehensive_analytics_noexcept(cache, responses, config, outcomes, run) ==
    LET analysed == analyze_individual_responses(responses, config, outcomes)
        overall_analysis == generate_overall_analysis(analysed.list, config, responses, run)
    IN  [raised |-> overall_analysis.raised, value |-> overall_analysis.value,
         path |-> overall_analysis.path, response_analyses |-> analysed.list,
         item_calls |-> analysed.calls, overall_calls |-> overall_analysis.calls,
         cache |-> cache]

\* PerformanceAnalysisOrchestrator.generate_comprehensive_analytics: the
\* value returned (or raised), the analysis cache afterwards, the path
\* that produced the value and the agent invocations in order
generate_comprehensive_analytics(cache, responses, config, outcomes, run) ==
    LET session_id == perf_get_session_id(config, responses)
        analysed == analyze_individual_responses(responses, config, outcomes)
        response_analyses == analysed.list
        overall_analysis == generate_overall_analysis(response_analyses, config, responses, run)
        last_resort == generate_fallback_analytics(responses, config)
        item_calls == analysed.calls
    IN  IF ~overall_analysis.raised
        THEN [raised |-> FALSE, value |-> overall_analysis.value, path |-> overall_analysis.path,
              response_analyses |-> response_analyses,
              item_calls |-> item_calls, overall_calls |-> overall_analysis.calls,
              cache |-> [k \in DOMAIN cache \cup {session_id} |->
                            IF k = session_id THEN overall_analysis.value ELSE cache[k]]]
        ELSE [raised |-> last_resort.raised, value |-> last_resort.value, path |-> "final_fallback",
              response_analyses |-> response_analyses,
              item_calls |-> item_calls, overall_calls |-> overall_analysis.calls,
              cache |-> cache]

(***************************************************************************)
(* agents/orchestrator.py                                                  *)
(* session_memory is a dict: a function from keys (token sequences) to     *)
(* values.                                                                 *)
(***************************************************************************)
CannedPerStyle == 5

FollowupLiteral == Question("literal", None, None, 0, None, "Can you elaborate on that point a bit more?")

\* AgenticOrchestrator.get_session_id
get_session_id(config) ==
    LowerSeq(ReplaceSpace(config.topic \o <<"_", config.style, "_", config.experience_level>>))

\* cache_key = f"{session_id}_topic_analysis"
topic_cache_key(session_id) == session_id \o <<"_topic_analysis">>

\* d[k] = v
DictSet(d, k, v) == [x \in DOMAIN d \cup {k} |-> IF x = k THEN v ELSE d[x]]

\* update_session_memory that keeps one slot for all sessions
update_session_memory_shared(memory, session_id, data) == DictSet(memory, <<"session">>, data)

\* AgenticOrchestrator.update_session_memory: both callers' data dict holds
\* exactly last_question and question_number
update_session_memory(memory, session_id, data) == DictSet(memory, session_id, data)

\* AgenticOrchestrator.generate_fallback_question
generate_fallback_question(config, question_number) ==
    LET table == IF config.style \in {"technical", "hr", "behavioral"}
                 THEN config.style ELSE "technical"
        index == Min(question_number - 1, CannedPerStyle - 1)
    IN  Question("canned", table, None, index, config.topic, None)

\* get_or_create_topic_analysis that never writes the cache
get_or_create_topic_analysis_nocache(memory, config, session_id, run, err) ==
    LET cache_key == topic_cache_key(session_id)
        analysis_result == execute(run, TopicAnalysisAgent_generate_fallback_result(config))
    IN  IF cache_key \in DOMAIN memory
        THEN [raised |-> FALSE, value |-> memory[cache_key], memory |-> memory,
              invoked |-> FALSE, from_fallback |-> FALSE]
        ELSE [raised |-> err \/ analysis_result.raised,
              value |-> analysis_result.value, memory |-> memory,
              invoked |-> TRUE, from_fallback |-> analysis_result.from_fallback]

\* AgenticOrchestrator.get_or_create_topic_analysis.  err: an exception is
\* raised by the analysis step before the cache is written.
get_or_create_topic_analysis(memory, config, session_id, run, err) ==
    LET cache_key == topic_cache_key(session_id)
        analysis_result == execute(run, TopicAnalysisAgent_generate_fallback_result(config))
    IN  IF cache_key \in DOMAIN memory
        THEN [raised |-> FALSE, value |-> memory[cache_key], memory |-> memory,
              invoked |-> FALSE, from_fallback |-> FALSE]
        ELSE IF err \/ analysis_result.raised
        THEN [raised |-> TRUE, value |-> None, memory |-> memory,
              invoked |-> TRUE, from_fallback |-> analysis_result.from_fallback]
        ELSE [raised |-> FALSE, value |-> analysis_result.value,
              memory |-> DictSet(memory, cache_key, analysis_result.value),
              invoked |-> TRUE, from_fallback |-> analysis_result.from_fallback]

\* create_simple_question_spec with a difficulty that ignores experience_level
create_simple_question_spec_by_number(topic_analysis, config, previous_questions, question_number) ==
    LET difficulty == IF question_number > 2
                      THEN "hard"
                      ELSE IF question_number > 1 THEN "medium"
                      ELSE "easy"
        focus_areas == IF topic_analysis.focus_areas # << >> THEN topic_analysis.focus_areas
                       ELSE <<"General Knowledge">>
        focus_area == focus_areas[Min(question_number - 1, Len(focus_areas) - 1) + 1]
        concepts == IF topic_analysis.main_concepts # << >> THEN Take(topic_analysis.main_concepts, 2)
                    ELSE <<"Core Concepts">>
        question_type == IF config.style = "behavioral" THEN "scenario"
                         ELSE IF config.style = "case-study" THEN "problem-solving"
                         ELSE IF question_number > 1 THEN "practical"
                         ELSE "theoretical"
    IN  [category |-> config.style, difficulty |-> difficulty, focus_area |-> focus_area,
         concepts |-> concepts, avoid_topics |-> previous_questions,
         question_type |-> question_type]

\* create_simple_question_spec that always takes the first focus area
create_simple_question_spec_first_focus(topic_analysis, config, previous_questions, question_number) ==
    LET difficulty == IF question_number > 2
                      THEN (IF config.experience_level = "fresher" THEN "medium" ELSE "hard")
                      ELSE IF question_number > 1 THEN "medium"
                      ELSE "easy"
        focus_areas == IF topic_analysis.focus_areas # << >> THEN topic_analysis.focus_areas
                       ELSE <<"General Knowledge">>
        focus_area == focus_areas[1]
        concepts == IF topic_analysis.main_concepts # << >> THEN Take(topic_analysis.main_concepts, 2)
                    ELSE <<"Core Concepts">>
        question_type == IF config.style = "behavioral" THEN "scenario"
                         ELSE IF config.style = "case-study" THEN "problem-solving"
                         ELSE IF question_number > 1 THEN "practical"
                         ELSE "theoretical"
    IN  [category |-> config.style, difficulty |-> difficulty, focus_area |-> focus_area,
         concepts |-> concepts, avoid_topics |-> previous_questions,
         question_type |-> question_type]

\* AgenticOrchestrator.create_simple_question_spec, for question_number >= 1
create_simple_question_spec(topic_analysis, config, previous_questions, question_number) ==
    LET difficulty == IF question_number > 2
                      THEN (IF config.experience_level = "fresher" THEN "medium" ELSE "hard")
                      ELSE IF question_number > 1 THEN "medium"
                      ELSE "easy"
        focus_areas == IF topic_analysis.focus_areas # << >> THEN topic_analysis.focus_areas
                       ELSE <<"General Knowledge">>
        focus_area == focus_areas[Min(question_number - 1, Len(focus_areas) - 1) + 1]
        concepts == IF topic_analysis.main_concepts # << >> THEN Take(topic_analysis.main_concepts, 2)
                    ELSE <<"Core Concepts">>
        question_type == IF config.style = "behavioral" THEN "scenario"
                         ELSE IF config.style = "case-study" THEN "problem-solving"
                         ELSE IF question_number > 1 THEN "practical"
                         ELSE "theoretical"
    IN  [category |-> config.style, difficulty |-> difficulty, focus_area |-> focus_area,
         concepts |-> concepts, avoid_topics |-> previous_questions,
         question_type |-> question_type]

\* AgenticOrchestrator.generate_question_streamlined.  err: an exception
\* reaches the method's except clause.
generate_question_streamlined(topic_analysis, config, previous_questions, question_number, run, choice, err) ==
    LET question_spec == create_simple_question_spec(topic_analysis, config,
                                                     previous_questions, question_number)
        generation_result == execute(run, QuestionGenerationAgent_generate_fallback_result(config, choice))
    IN  IF err \/ generation_result.raised
        THEN [question |-> generate_fallback_question(config, question_number),
              question_spec |-> question_spec, path |-> "canned",
              metadata |-> None]
        ELSE [question |-> generation_result.value.question,
              question_spec |-> question_spec,
              path |-> IF generation_result.from_fallback THEN "agent_fallback" ELSE "model",
              metadata |-> generation_result.value.metadata]

\* AgenticOrchestrator.generate_question.  err is "none", "topic_analysis"
\* (an exception in step 1) or "streamlined" (an exception in step 2).
generate_question(memory, config, previous_questions, question_number, ta_run, qg_run, choice, err) ==
    LET session_id == get_session_id(config)
        topic_analysis == get_or_create_topic_analysis(memory, config, session_id, ta_run,
                                                       err = "topic_analysis")
        streamlined == generate_question_streamlined(topic_analysis.value, config, previous_questions,
                                                     question_number, qg_run, choice,
                                                     err = "streamlined")
    IN  IF topic_analysis.raised
        THEN [raised |-> FALSE, question |-> generate_fallback_question(config, question_number),
              memory |-> topic_analysis.memory, path |-> "outer_canned",
              topic_invoked |-> topic_analysis.invoked, question_invoked |-> FALSE,
              question_spec |-> None, metadata |-> None]
        ELSE [raised |-> FALSE, question |-> streamlined.question,
              memory |-> update_session_memory(topic_analysis.memory, session_id,
                            [last_question |-> streamlined.question,
                             question_number |-> question_number]),
              path |-> streamlined.path,
              topic_invoked |-> topic_analysis.invoked, question_invoked |-> TRUE,
              question_spec |-> streamlined.question_spec, metadata |-> streamlined.metadata]

\* AgenticOrchestrator.generate_followup.  err is "none", "topic_analysis"
\* or "question_generation": where an exception reaches the except clause.
generate_followup(memory, config, ta_run, qg_run, choice, err) ==
    LET session_id == get_session_id(config)
        topic_analysis == get_or_create_topic_analysis(memory, config, session_id, ta_run,
                                                       err = "topic_analysis")
        result == execute(qg_run, QuestionGenerationAgent_generate_fallback_result(config, choice))
    IN  IF topic_analysis.raised
        THEN [raised |-> FALSE, question |-> FollowupLiteral, memory |-> topic_analysis.memory,
              path |-> "literal", topic_invoked |-> topic_analysis.invoked,
              question_invoked |-> FALSE]
        ELSE IF err = "question_generation" \/ result.raised
        THEN [raised |-> FALSE, question |-> FollowupLiteral, memory |-> topic_analysis.memory,
              path |-> "literal", topic_invoked |-> topic_analysis.invoked,
              question_invoked |-> TRUE]
        ELSE [raised |-> FALSE, question |-> result.value.question, memory |-> topic_analysis.memory,
              path |-> IF result.from_fallback THEN "agent_fallback" ELSE "model",
              topic_invoked |-> topic_analysis.invoked, question_invoked |-> TRUE]

\* AgenticOrchestrator.clear_session
clear_session(memory, session_id) ==
    [k \in {x \in DOMAIN memory : ~StartsWith(x, session_id)} |-> memory[k]]

\* "_" in tok, for the tokens session-memory keys are made of: the
\* separator and the suffix of the topic-analysis cache key
HasUnderscore(tok) == tok \in {"_", "_topic_analysis"}

\* key.split("_")[0]: what precedes the first underscore of the key
RECURSIVE split_first(_)
split_first(key) ==
    IF key = << >> \/ HasUnderscore(key[1]) THEN << >>
    ELSE <<key[1]>> \o split_first(Tail(key))

\* AgenticOrchestrator.get_session_stats: the two counts of the dict
\* returned (its other entries are constants and the length of a repr)
get_session_stats(memory) ==
    LET active_sessions == {split_first(key) :
                                key \in {k \in DOMAIN memory : \E i \in 1..Len(k) : HasUnderscore(k[i])}}
    IN  [active_sessions |-> Cardinality(active_sessions),
         total_cached_items |-> Cardinality(DOMAIN memory)]

(***************************************************************************)
(* services/livekit_service.py, services/voice_interview_service.py and    *)
(* the voice endpoints of main.py.  A token is the room and identity it   *)
(* was issued for; the collaborators' failures are inputs.                 *)
(***************************************************************************)
\* LiveKitService.generate_access_token: raises (not configured, or the
\* library call fails) or returns a token for the room and identity
generate_access_token(room_name, identity, ok) ==
    [raised |-> ~ok, value |-> [room |-> room_name, identity |-> identity]]

\* LiveKitService.create_interview_room.  fail names the token call that
\* raises: "none", "participant" or "interviewer".
create_interview_room(room_name, interview_config, participant_name, fail) ==
    LET participant_token == generate_access_token(room_name, participant_name, fail # "participant")
        interviewer_token == generate_access_token(room_name, "ai-interviewer", fail # "interviewer")
    IN  IF participant_token.raised \/ interviewer_token.raised
        THEN [raised |-> TRUE, value |-> None]
        ELSE [raised |-> FALSE,
              value |-> [room_name |-> room_name, ws_url |-> "ws_url",
                         participant_token |-> participant_token.value,
                         interviewer_token |-> interviewer_token.value,
                         config |-> interview_config]]

\* VoiceInterviewService.start_voice_interview: the descriptor returned (or
\* the exception raised), active_interviews afterwards and the number of
\* create_interview_room calls made.  experience_level is never missing
\* from a valid config.
VoiceInterviewService_start_voice_interview(active, config, participant_name, enable_ai_agent, agent_provider, room_name, fail) ==
    LET room_data == create_interview_room(room_name, config, participant_name, fail)
    IN  IF room_data.raised
        THEN [raised |-> TRUE, value |-> None, active |-> active, provisioning_calls |-> 1]
        ELSE
            LET session_id == room_data.value.room_name
                interview_session ==
                    [session_id |-> session_id, room_name |-> room_data.value.room_name,
                     config |-> config, participant_name |-> participant_name,
                     status |-> "waiting",
                     tokens |-> [participant |-> room_data.value.participant_token,
                                 interviewer |-> room_data.value.interviewer_token]]
                response_data ==
                    [session_id |-> session_id, room_name |-> room_data.value.room_name,
                     ws_url |-> room_data.value.ws_url,
                     participant_token |-> room_data.value.participant_token,
                     config |-> config, ai_agent_enabled |-> enable_ai_agent,
                     conversational_mode |-> enable_ai_agent,
                     agent_provider |-> agent_provider]
            IN  [raised |-> FALSE, value |-> response_data,
                 active |-> DictSet(active, session_id, interview_session),
                 provisioning_calls |-> 1]

\* the request model of both voice endpoints: keys it does not declare
\* (room_name, at top level or inside config) are dropped by validation
VoiceInterviewStartRequest(body) ==
    [config |-> InterviewConfig(body.config.topic, body.config.style, body.config.experience_level),
     participant_name |-> body.participant_name,
     enable_ai_agent |-> body.enable_ai_agent,
     agent_provider |-> body.agent_provider]

\* getattr(obj, "room_name", None)
getattr_room_name(obj) == IF "room_name" \in DOMAIN obj THEN obj.room_name ELSE None

\* main.start_voice_interview: the HTTP status, the descriptor returned,
\* active_interviews afterwards, and the create_interview_room and
\* create_dispatch calls made.  An HTTPException raised inside the try is
\* caught by its except clause and becomes a 500.  room_name and the
\* participant token of a descriptor are never empty.
start_voice_interview(active, request, room_name, fail, dispatch_ok) ==
    LET session == VoiceInterviewService_start_voice_interview(
                       active, request.config, request.participant_name,
                       request.enable_ai_agent, request.agent_provider, room_name, fail)
    IN  IF request.participant_name \in {None, ""}
        THEN [status |-> 500, session |-> None, active |-> active,
              provisioning_calls |-> 0, dispatch_calls |-> << >>]
        ELSE IF session.raised
        THEN [status |-> 500, session |-> None, active |-> session.active,
              provisioning_calls |-> session.provisioning_calls, dispatch_calls |-> << >>]
        ELSE IF ~dispatch_ok
        THEN [status |-> 500, session |-> None, active |-> session.active,
              provisioning_calls |-> session.provisioning_calls,
              dispatch_calls |-> <<session.value.room_name>>]
        ELSE [status |-> 200, session |-> session.value, active |-> session.active,
              provisioning_calls |-> session.provisioning_calls,
              dispatch_calls |-> <<session.value.room_name>>]

\* main.end_voice_interview: the HTTP status and the rooms delete_room was
\* requested for.  With no room_name the handler raises a 400 inside its try, which
\* its except clause turns into a 500; with one, the call of
\* voice_service.end_voice_interview, a method VoiceInterviewService does
\* not have, raises AttributeError before delete_room is reached.
end_voice_interview(request) ==
    LET in_config == getattr_room_name(request.config)
        room_name == IF in_config # None THEN in_config ELSE getattr_room_name(request)
    IN  IF room_name = None
        THEN [status |-> 500, detail |-> "room_name is required", room_name |-> room_name,
              delete_calls |-> {}]
        ELSE [status |-> 500, detail |-> "AttributeError", room_name |-> room_name,
              delete_calls |-> {}]

(***************************************************************************)
(* State.                                                                  *)
(*   a_last            the last BaseAgent.execute call and its outcome     *)
(*   analysis_cache    PerformanceAnalysisOrchestrator.analysis_cache      *)
(*   p_last            the last performance-orchestrator call              *)
(*   session_memory    AgenticOrchestrator.session_memory                  *)
(*   q_last            the last question-orchestrator call                 *)
(*   session_log       per session id, what happened since the last        *)
(*                     clear_session: generate_question calls made,        *)
(*                     Topic-Analysis agent invocations, calls answered    *)
(*                     from an except clause of the orchestrator           *)
(*   n_calls           number of generate_question / generate_followup     *)
(*                     calls made                                          *)
(*   active_interviews VoiceInterviewService.active_interviews             *)
(*   dispatches        rooms an agent dispatch was requested for           *)
(*   deletions         rooms a deletion was requested for                  *)
(*   v_last            the last voice request and its outcome              *)
(*   tasks             the generate_question coroutines started, each with *)
(*                     the await it is suspended at                        *)
(*   job               the generate_comprehensive_analytics coroutine      *)
(*                     started, with the await it is suspended at          *)
(*   events            the agent invocations of the coroutines, in the     *)
(*                     order they began and ended                          *)
(*   active_agents     VoiceInterviewService.active_agents of the enhanced *)
(*                     voice service                                       *)
(*   processes         the agent processes started, running or exited      *)
(*   threads           per session, the position of its monitor thread and *)
(*                     of the end_interview call made for it               *)
(***************************************************************************)
VARIABLES a_last, analysis_cache, p_last, session_memory, q_last, session_log, n_calls,
          active_interviews, dispatches, deletions, v_last,
          tasks, job, events, active_agents, processes, threads

vars == <<a_last, analysis_cache, p_last, session_memory, q_last, session_log, n_calls,
          active_interviews, dispatches, deletions, v_last,
          tasks, job, events, active_agents, processes, threads>>

agent_vars == <<a_last>>
perf_vars == <<analysis_cache, p_last>>
question_vars == <<session_memory, q_last, session_log, n_calls>>
voice_vars == <<active_interviews, dispatches, deletions, v_last>>
task_vars == <<tasks, job, events>>
fix_vars == <<active_agents, processes, threads>>

NoCall == [op |-> None]

InitState ==
    /\ a_last = NoCall
    /\ analysis_cache = << >>
    /\ p_last = NoCall
    /\ session_memory = << >>
    /\ q_last = NoCall
    /\ session_log = << >>
    /\ n_calls = 0
    /\ active_interviews = << >>
    /\ dispatches = {}
    /\ deletions = {}
    /\ v_last = NoCall
    /\ tasks = << >>
    /\ job = NoCall
    /\ events = << >>
    /\ active_agents = << >>
    /\ processes = << >>
    /\ threads = << >>

(***************************************************************************)
(* SpecAgent: one execute call of each agent variant on a fresh agent.     *)
(***************************************************************************)
MaxAnalyses == 2

InterviewResponse(n, text, duration) ==
    [question_id |-> n, question |-> n, response |-> text,
     timestamp |-> 1000 * n, duration |-> duration]

\* the dicts analyze_individual_responses can append for the n-th response
AnalysisEntries(n) ==
    {[question_id |-> n, question |-> n, response |-> t, timestamp |-> 1000 * n,
      analysis |-> model_dump(r), metadata |-> [analyzed_at |-> "2024-01-01T00:00:00Z"]] :
        t \in {x \in Texts : x.len = 25 /\ ~x.ithink}, r \in {m \in ModelResponseResults : m.response_analysis["clarity"] = 80}}

AnalysisLists ==
    UNION {{s \in [1..n -> UNION {AnalysisEntries(i) : i \in 1..n}] :
                \A i \in 1..n : s[i] \in AnalysisEntries(i)} : n \in 0..MaxAnalyses}

Executed(agent, input, run, result) ==
    [op |-> "execute", agent |-> agent, input |-> input, run_failed |-> run.failed,
     raised |-> result.raised, value |-> result.value,
     from_fallback |-> result.from_fallback, model_calls |-> result.model_calls]

ExecTopic ==
    /\ a_last = NoCall
    /\ \E config \in Configs, run \in {RunFailed} \cup {RunData(d) : d \in ModelTopicAnalyses} :
        \E result \in {execute(run, TopicAnalysisAgent_generate_fallback_result(config))} :
            /\ a_last' = Executed("TopicAnalysisAgent",
                                  [config |-> config], run, result)
            /\ UNCHANGED <<perf_vars, question_vars, voice_vars, task_vars, fix_vars>>

ExecQuestion ==
    /\ a_last = NoCall
    /\ \E config \in Configs, choice \in 0..(TemplatesPerBucket - 1),
       run \in {RunFailed} \cup {RunData(d) : d \in ModelQuestionResults} :
        \E result \in {execute(run, QuestionGenerationAgent_generate_fallback_result(config, choice))} :
            /\ a_last' = Executed("QuestionGenerationAgent",
                                  [config |-> config], run, result)
            /\ UNCHANGED <<perf_vars, question_vars, voice_vars, task_vars, fix_vars>>

ExecResponse ==
    /\ a_last = NoCall
    /\ \E config \in Configs, response \in Texts,
       run \in {RunFailed} \cup {RunData(d) : d \in ModelResponseResults} :
        \E result \in {execute(run, ResponseAnalysisAgent_generate_fallback_result(response, config))} :
            /\ a_last' = Executed("ResponseAnalysisAgent",
                                  [config |-> config, response |-> response], run, result)
            /\ UNCHANGED <<perf_vars, question_vars, voice_vars, task_vars, fix_vars>>

ExecOverall ==
    /\ a_last = NoCall
    /\ \E response_analyses \in AnalysisLists,
       run \in {RunFailed} \cup {RunData(d) : d \in ModelAnalytics} :
        \E result \in {execute(run, OverallAnalysisAgent_generate_fallback_result(response_analyses))} :
            /\ a_last' = Executed("OverallAnalysisAgent",
                                  [response_analyses |-> response_analyses], run, result)
            /\ UNCHANGED <<perf_vars, question_vars, voice_vars, task_vars, fix_vars>>

NextAgent == ExecTopic \/ ExecQuestion \/ ExecResponse \/ ExecOverall

SpecAgent == InitState /\ [][NextAgent]_vars

(***************************************************************************)
(* SpecPerf: one generate_comprehensive_analytics request on a fresh       *)
(* performance orchestrator.                                               *)
(***************************************************************************)
MaxResponses == 3

PerfConfig == InterviewConfig(<<"React">>, "technical", "junior")

PerfTexts == {[len |-> 0, dot |-> FALSE, ithink |-> FALSE],
              [len |-> 10001, dot |-> TRUE, ithink |-> TRUE]}

\* what happens to one item of the loop: the model call fails, the model
\* returns a result, or an exception reaches the loop's except clause
ModelOutcome(sc) ==
    [run |-> RunData([response_analysis |-> [k \in ScoreKeys |-> 80], score |-> sc]), err |-> FALSE]
AgentFallbackOutcome == [run |-> RunFailed, err |-> FALSE]
LoopExceptOutcome == [run |-> RunFailed, err |-> TRUE]

\* the n-th response of a request together with what happens to it; the
\* text matters only to the two fallbacks
PerfItems(n) ==
    {[response |-> InterviewResponse(n, t, None), outcome |-> o] :
        t \in PerfTexts, o \in {AgentFallbackOutcome, LoopExceptOutcome}}
    \cup {[response |-> InterviewResponse(n, t, None), outcome |-> ModelOutcome(sc)] :
        t \in {x \in PerfTexts : x.len = 0}, sc \in {-5, 5, 60, 70, 90, 150}}
    \cup {[response |-> InterviewResponse(n, t, Huge), outcome |-> o] :
        t \in {x \in PerfTexts : x.len = 0},
        o \in {AgentFallbackOutcome, ModelOutcome(60), ModelOutcome(70)}}

RECURSIVE PerfRequests(_)
PerfRequests(n) ==
    IF n = 0 THEN {<< >>}
    ELSE PerfRequests(n - 1)
         \cup {Append(s, item) : s \in {x \in PerfRequests(n - 1) : Len(x) = n - 1},
                                 item \in PerfItems(n)}

\* the number of generate_comprehensive_analytics calls made so far
AnalyticsCalls == IF p_last = NoCall THEN 0 ELSE p_last.seq

\* one generate_comprehensive_analytics call: request is the list of
\* responses with what happens to each, run the outcome of the
\* Overall-Analysis model call
AnalyticsCall(request, run) ==
    \E responses \in {[n \in 1..Len(request) |-> request[n].response]},
       outcomes \in {[n \in 1..Len(request) |-> request[n].outcome]} :
    \E result \in {generate_comprehensive_analytics(analysis_cache, responses, PerfConfig,
                                                    outcomes, run)} :
        /\ p_last' = [op |-> "generate_comprehensive_analytics",
                      seq |-> AnalyticsCalls + 1,
                      session_id |-> perf_get_session_id(PerfConfig, responses),
                      responses |-> responses, outcomes |-> outcomes,
                      overall_run_failed |-> run.failed,
                      raised |-> result.raised, value |-> result.value,
                      path |-> result.path,
                      response_analyses |-> result.response_analyses,
                      item_calls |-> result.item_calls,
                      overall_calls |-> result.overall_calls]
        /\ analysis_cache' = result.cache
        /\ UNCHANGED <<agent_vars, question_vars, voice_vars, task_vars, fix_vars>>

GenerateComprehensiveAnalytics ==
    /\ p_last = NoCall
    /\ \E request \in PerfRequests(MaxResponses),
          run \in {RunFailed} \cup {RunData(d) : d \in ModelAnalytics} :
        AnalyticsCall(request, run)

NextPerf == GenerateComprehensiveAnalytics

SpecPerf == InitState /\ [][NextPerf]_vars

(***************************************************************************)
(* SpecRepeat: a few generate_comprehensive_analytics requests, one after   *)
(* the other, on one performance orchestrator.  Requests with no response  *)
(* share one session id, requests with responses another.                  *)
(***************************************************************************)
MaxRequests == 2

\* the n-th response of a request: the model call fails, or the model
\* scores it 70 or 150
RepeatItems(n) ==
    {[response |-> InterviewResponse(n, [len |-> 0, dot |-> FALSE, ithink |-> FALSE], None),
      outcome |-> o] : o \in {AgentFallbackOutcome, ModelOutcome(70), ModelOutcome(150)}}

RepeatRequests ==
    {<< >>} \cup {<<a>> : a \in RepeatItems(1)}
            \cup {<<a, b>> : a \in RepeatItems(1), b \in RepeatItems(2)}

RepeatRuns ==
    {RunFailed,
     RunData([overall_score |-> 70, performance_level |-> "good",
              response_analysis |-> [k \in ScoreKeys |-> 70], question_reviews |-> << >>,
              metadata |-> [fallback |-> FALSE]])}

RepeatAnalytics ==
    /\ AnalyticsCalls < MaxRequests
    /\ \E request \in RepeatRequests, run \in RepeatRuns : AnalyticsCall(request, run)

SpecRepeat == InitState /\ [][RepeatAnalytics]_vars

(***************************************************************************)
(* Question orchestrator: the actions.  Each takes the sets its inputs     *)
(* are drawn from.                                                         *)
(***************************************************************************)
\* what the environment does to one call: the outcome of the Topic-Analysis
\* model call (used on a cache miss), the outcome of the
\* Question-Generation model call, the template random.choice picks, and
\* where, if anywhere, an exception is raised outside the agents
Scenario(ta_run, qg_run, choice, err) ==
    [ta_run |-> ta_run, qg_run |-> qg_run, choice |-> choice, err |-> err]

NoLog == [questions |-> 0, topic_calls |-> 0, faults |-> 0]

LogOf(log, sid) == IF sid \in DOMAIN log THEN log[sid] ELSE NoLog

Logged(log, sid, is_question, topic_invoked, fault) ==
    LET old == LogOf(log, sid)
    IN  DictSet(log, sid,
                [questions |-> old.questions + (IF is_question THEN 1 ELSE 0),
                 topic_calls |-> old.topic_calls + (IF topic_invoked THEN 1 ELSE 0),
                 faults |-> old.faults + (IF fault THEN 1 ELSE 0)])

GenerateQuestion(configs, question_numbers, scenarios) ==
    \E config \in configs, question_number \in question_numbers, sc \in scenarios :
        \E previous_questions \in {[i \in 1..(question_number - 1) |-> i]} :
        \E r \in {generate_question(session_memory, config, previous_questions, question_number,
                                    sc.ta_run, sc.qg_run, sc.choice, sc.err)} :
            /\ sc.err \in {"none", "topic_analysis", "streamlined"}
            /\ session_memory' = r.memory
            /\ q_last' = [op |-> "generate_question", config |-> config,
                          question_number |-> question_number,
                          previous_questions |-> previous_questions,
                          scenario |-> sc, raised |-> r.raised, question |-> r.question,
                          path |-> r.path, topic_invoked |-> r.topic_invoked,
                          question_invoked |-> r.question_invoked,
                          question_spec |-> r.question_spec, metadata |-> r.metadata]
            /\ session_log' = Logged(session_log, get_session_id(config), TRUE,
                                     r.topic_invoked, r.path = "outer_canned")
            /\ n_calls' = n_calls + 1
            /\ UNCHANGED <<agent_vars, perf_vars, voice_vars, task_vars, fix_vars>>

GenerateFollowup(configs, scenarios) ==
    \E config \in configs, sc \in scenarios :
        \E r \in {generate_followup(session_memory, config, sc.ta_run, sc.qg_run, sc.choice, sc.err)} :
            /\ sc.err \in {"none", "topic_analysis", "question_generation"}
            /\ session_memory' = r.memory
            /\ q_last' = [op |-> "generate_followup", config |-> config,
                          scenario |-> sc, raised |-> r.raised, question |-> r.question,
                          path |-> r.path, topic_invoked |-> r.topic_invoked,
                          question_invoked |-> r.question_invoked]
            /\ session_log' = Logged(session_log, get_session_id(config), FALSE,
                                     r.topic_invoked, r.path = "literal")
            /\ n_calls' = n_calls + 1
            /\ UNCHANGED <<agent_vars, perf_vars, voice_vars, task_vars, fix_vars>>

ClearSession(configs) ==
    \E config \in configs :
        LET session_id == get_session_id(config)
        IN  /\ session_memory' = clear_session(session_memory, session_id)
            /\ q_last' = [op |-> "clear_session", session_id |-> session_id]
            /\ session_log' = << >>
            /\ UNCHANGED <<n_calls, agent_vars, perf_vars, voice_vars, task_vars, fix_vars>>

GetSessionStats ==
    /\ q_last' = [op |-> "get_session_stats", stats |-> get_session_stats(session_memory)]
    /\ UNCHANGED <<session_memory, session_log, n_calls, agent_vars, perf_vars, voice_vars, task_vars, fix_vars>>

(***************************************************************************)
(* SpecAsk: one generate_question or generate_followup request on a fresh  *)
(* orchestrator, over every config.                                        *)
(***************************************************************************)
MaxAskQuestionNumber == 4

TopicRuns == {RunFailed} \cup {RunData(d) : d \in ModelTopicAnalyses}
QuestionRuns == {RunFailed} \cup {RunData(d) : d \in ModelQuestionResults}

AskScenarios(errs) ==
    {Scenario(t, q, c, "none") : t \in TopicRuns, q \in {RunFailed}, c \in 0..(TemplatesPerBucket - 1)}
    \cup {Scenario(t, q, 0, "none") : t \in TopicRuns, q \in QuestionRuns \ {RunFailed}}
    \cup {Scenario(t, RunFailed, 0, e) : t \in TopicRuns, e \in errs}

AskQuestion ==
    /\ n_calls = 0
    /\ GenerateQuestion(Configs, 1..MaxAskQuestionNumber, AskScenarios({"topic_analysis", "streamlined"}))

AskFollowup ==
    /\ n_calls = 0
    /\ GenerateFollowup(Configs, AskScenarios({"topic_analysis", "question_generation"}))

NextAsk == AskQuestion \/ AskFollowup

SpecAsk == InitState /\ [][NextAsk]_vars

(***************************************************************************)
(* Spec: a few sessions on one orchestrator.  Two configs share a session  *)
(* id, the session id of a third has that id as a prefix, a fourth is      *)
(* unrelated.                                                             *)
(***************************************************************************)
MaxCalls == 2

\* a first question and a later one
SessionQuestionNumbers == {1, 2}

SessionConfigs ==
    {InterviewConfig(<<"React">>, "technical", "senior"),
     InterviewConfig(<<"react">>, "technical", "senior"),
     InterviewConfig(<<"React", " ", "technical", " ", "senior">>, "hr", "junior"),
     InterviewConfig(<<"Frontend">>, "behavioral", "fresher")}

SessionTopicData == RunData([main_concepts |-> <<"Hooks", "State", "JSX">>,
                             focus_areas |-> <<"Hooks", "Rendering">>,
                             complexity |-> "high",
                             question_categories |-> <<"technical">>])

SessionQuestionData == RunData([question |-> ModelQuestion("Explain the virtual DOM."),
                                metadata |-> [category |-> "technical", difficulty |-> "easy",
                                              focus_area |-> "Hooks", concepts |-> <<"Hooks">>,
                                              question_type |-> "practical"]])

\* both model calls fail, both succeed, the first
\* succeeds and the second fails, or an exception is raised in step 1 or at
\* the place err names
SessionScenarios(err) ==
    {Scenario(RunFailed, RunFailed, 0, "none"),
     Scenario(SessionTopicData, SessionQuestionData, 0, "none"),
     Scenario(SessionTopicData, RunFailed, 0, "none"),
     Scenario(RunFailed, RunFailed, 0, err),
     Scenario(RunFailed, RunFailed, 0, "topic_analysis")}

Ask ==
    /\ n_calls < MaxCalls
    /\ GenerateQuestion(SessionConfigs, SessionQuestionNumbers, SessionScenarios("streamlined"))

Followup ==
    /\ n_calls < MaxCalls
    /\ GenerateFollowup(SessionConfigs, SessionScenarios("question_generation"))

Clear == ClearSession(SessionConfigs)

Next == Ask \/ Followup \/ Clear

Spec == InitState /\ [][Next]_vars

(***************************************************************************)
(* SpecStats: the sessions of Spec with get_session_stats read at any      *)
(* point; every model call fails, which leaves the keys written as they    *)
(* are when it succeeds.                                                   *)
(***************************************************************************)
StatsScenarios == {Scenario(RunFailed, RunFailed, 0, "none")}

StatsAsk ==
    /\ n_calls < MaxCalls
    /\ GenerateQuestion(SessionConfigs, {1}, StatsScenarios)

StatsFollowup ==
    /\ n_calls < MaxCalls
    /\ GenerateFollowup(SessionConfigs, StatsScenarios)

StatsClear == ClearSession(SessionConfigs)

NextStats == StatsAsk \/ StatsFollowup \/ StatsClear \/ GetSessionStats

SpecStats == InitState /\ [][NextStats]_vars

(***************************************************************************)
(* SpecVoice: voice-interview-start and voice-interview-end requests on    *)
(* one VoiceInterviewService.                                              *)
(***************************************************************************)
MaxSessions == 2

\* room names create_interview_room may generate
RoomNames == {"interview-1", "interview-2", "interview-3"}

VoiceConfig == InterviewConfig(<<"React">>, "technical", "senior")

\* request bodies: room_name and config_room_name are the value of a
\* room_name key at top level and inside config, None when there is none
VoiceBodies(room_names) ==
    {[config |-> [topic |-> VoiceConfig.topic, style |-> VoiceConfig.style,
                  experience_level |-> VoiceConfig.experience_level,
                  room_name |-> config_room_name],
      participant_name |-> participant_name, enable_ai_agent |-> enable_ai_agent,
      agent_provider |-> "google", room_name |-> room_name] :
        participant_name \in {None, "", "Ada"}, enable_ai_agent \in BOOLEAN,
        room_name \in room_names, config_room_name \in room_names}

StartVoiceInterview ==
    /\ Cardinality(DOMAIN active_interviews) < MaxSessions
    /\ \E body \in VoiceBodies({None}), room_name \in RoomNames \ DOMAIN active_interviews,
          fail \in {"none", "participant", "interviewer"}, dispatch_ok \in BOOLEAN :
        \E request \in {VoiceInterviewStartRequest(body)} :
        \E r \in {start_voice_interview(active_interviews, request, room_name, fail, dispatch_ok)} :
            /\ active_interviews' = r.active
            /\ dispatches' = dispatches \cup {r.dispatch_calls[i] : i \in 1..Len(r.dispatch_calls)}
            /\ v_last' = [op |-> "start_voice_interview", request |-> request,
                          room_name |-> room_name, fail |-> fail, dispatch_ok |-> dispatch_ok,
                          status |-> r.status, session |-> r.session,
                          provisioning_calls |-> r.provisioning_calls,
                          dispatch_calls |-> r.dispatch_calls,
                          registered |-> room_name \in DOMAIN r.active]
            /\ UNCHANGED <<deletions, agent_vars, perf_vars, question_vars, task_vars, fix_vars>>

\* an end request naming a room (at top level, inside config, or both) or
\* none
EndVoiceInterview ==
    \E body \in VoiceBodies(RoomNames \cup {None}) :
        \E request \in {VoiceInterviewStartRequest(body)} :
        \E r \in {end_voice_interview(request)} :
            /\ body.participant_name = "Ada" /\ body.enable_ai_agent
            /\ deletions' = deletions \cup r.delete_calls
            /\ v_last' = [op |-> "end_voice_interview", body |-> body,
                          status |-> r.status, detail |-> r.detail,
                          delete_calls |-> r.delete_calls]
            /\ UNCHANGED <<active_interviews, dispatches, agent_vars, perf_vars, question_vars, task_vars, fix_vars>>

NextVoice == StartVoiceInterview \/ EndVoiceInterview

SpecVoice == InitState /\ [][NextVoice]_vars

(***************************************************************************)
(* Coroutines of the question orchestrator.  asyncio runs the coroutines   *)
(* of one event loop on one thread: a coroutine runs uninterrupted from    *)
(* one await of a model call to the next, and the steps below are those    *)
(* uninterrupted pieces of generate_question.  The step that begins a      *)
(* model call decides nothing about its outcome; the step that resumes     *)
(* after it draws the outcome.                                             *)
(***************************************************************************)
\* an agent invocation begins or ends in coroutine `call`; data is the
\* value an ended Topic-Analysis invocation returned
Event(call, agent, kind, data) == [call |-> call, agent |-> agent, kind |-> kind, data |-> data]

\* the cache write that keeps an entry already present
cache_topic_analysis_keep_first(memory, cache_key, analysis) ==
    IF cache_key \in DOMAIN memory THEN memory ELSE DictSet(memory, cache_key, analysis)

\* self.session_memory[cache_key] = analysis_result.model_dump()
cache_topic_analysis(memory, cache_key, analysis) == DictSet(memory, cache_key, analysis)

\* generate_question from its call to its first await: the cache lookup of
\* get_or_create_topic_analysis and, on a hit, generate_question_streamlined
\* up to the await of the Question-Generation agent
BeginQuestion(configs, question_numbers) ==
    \E config \in configs, question_number \in question_numbers :
        LET call == Len(tasks) + 1
            cache_key == topic_cache_key(get_session_id(config))
            hit == cache_key \in DOMAIN session_memory
        IN  /\ tasks' = Append(tasks,
                    [config |-> config, question_number |-> question_number,
                     pc |-> IF hit THEN "question_generation" ELSE "topic_analysis",
                     topic_analysis |-> IF hit THEN session_memory[cache_key] ELSE None,
                     topic_invoked |-> ~hit, raised |-> FALSE,
                     qg_run_failed |-> FALSE, path |-> None, question |-> None])
            /\ events' = Append(events,
                    IF hit THEN Event(call, "QuestionGenerationAgent", "begin", None)
                    ELSE Event(call, "TopicAnalysisAgent", "begin", None))
            /\ UNCHANGED <<session_memory, q_last, session_log, n_calls, job,
                           agent_vars, perf_vars, voice_vars, fix_vars>>

\* coroutine i resumes after the await of analyze_topic: it caches the
\* analysis and runs on to the await of the Question-Generation agent; an
\* exception out of analyze_topic ends the call in the except clause of
\* generate_question
FinishTopicAnalysis(i, runs) ==
    /\ tasks[i].pc = "topic_analysis"
    /\ \E run \in runs :
        \E analysis_result \in {execute(run, TopicAnalysisAgent_generate_fallback_result(tasks[i].config))} :
            LET cache_key == topic_cache_key(get_session_id(tasks[i].config))
            IN  IF analysis_result.raised
                THEN /\ tasks' = [tasks EXCEPT ![i].pc = "done", ![i].path = "outer_canned",
                                    ![i].question = generate_fallback_question(tasks[i].config,
                                                                               tasks[i].question_number)]
                     /\ events' = Append(events, Event(i, "TopicAnalysisAgent", "raise", None))
                     /\ UNCHANGED session_memory
                ELSE /\ session_memory' = cache_topic_analysis(session_memory, cache_key,
                                                               analysis_result.value)
                     /\ tasks' = [tasks EXCEPT ![i].pc = "question_generation",
                                               ![i].topic_analysis = analysis_result.value]
                     /\ events' = events \o <<Event(i, "TopicAnalysisAgent", "end", analysis_result.value),
                                              Event(i, "QuestionGenerationAgent", "begin", None)>>
    /\ UNCHANGED <<q_last, session_log, n_calls, job, agent_vars, perf_vars, voice_vars, fix_vars>>

\* coroutine i resumes after the await of the Question-Generation agent:
\* the rest of generate_question_streamlined, update_session_memory and
\* the return
FinishQuestionGeneration(i, runs) ==
    /\ tasks[i].pc = "question_generation"
    /\ \E run \in runs, choice \in {0} :
        \E streamlined \in {generate_question_streamlined(tasks[i].topic_analysis, tasks[i].config,
                                << >>, tasks[i].question_number, run, choice, FALSE)} :
            /\ session_memory' = update_session_memory(session_memory, get_session_id(tasks[i].config),
                                    [last_question |-> streamlined.question,
                                     question_number |-> tasks[i].question_number])
            /\ tasks' = [tasks EXCEPT ![i].pc = "done", ![i].path = streamlined.path,
                                      ![i].qg_run_failed = run.failed,
                                      ![i].question = streamlined.question]
            /\ events' = Append(events, Event(i, "QuestionGenerationAgent", "end", None))
    /\ UNCHANGED <<q_last, session_log, n_calls, job, agent_vars, perf_vars, voice_vars, fix_vars>>

(***************************************************************************)
(* SpecConc: up to MaxConcurrent generate_question calls for one session   *)
(* id on a fresh orchestrator, interleaved at their awaits.               *)
(***************************************************************************)
MaxConcurrent == 2

\* two spellings of one topic: both configs have the session id
\* react_technical_senior
ConcConfigs == {InterviewConfig(<<"React">>, "technical", "senior"),
                InterviewConfig(<<"react">>, "technical", "senior")}

ConcTopicRuns == {RunFailed, SessionTopicData}

ConcQuestionRuns == {RunFailed, SessionQuestionData}

ConcBegin ==
    /\ Len(tasks) < MaxConcurrent
    /\ BeginQuestion(ConcConfigs, {1})

ConcFinishTopicAnalysis == \E i \in 1..Len(tasks) : FinishTopicAnalysis(i, ConcTopicRuns)

ConcFinishQuestionGeneration == \E i \in 1..Len(tasks) : FinishQuestionGeneration(i, ConcQuestionRuns)

NextConc == ConcBegin \/ ConcFinishTopicAnalysis \/ ConcFinishQuestionGeneration

SpecConc == InitState /\ [][NextConc]_vars

(***************************************************************************)
(* The coroutine of the performance orchestrator: the uninterrupted       *)
(* pieces of generate_comprehensive_analytics between the awaits of        *)
(* analyze_response (one per iteration of the loop) and of                 *)
(* analyze_overall_performance.  Its events carry call number 0 and, for   *)
(* the Response-Analysis agent, the 1-based position of the response.      *)
(***************************************************************************)
\* the loop with the next iteration's call begun together with this one's
begin_response_analysis_ahead(index) ==
    <<Event(0, "ResponseAnalysisAgent", "begin", index),
      Event(0, "ResponseAnalysisAgent", "begin", index + 1)>>

\* one iteration of the loop of analyze_individual_responses up to its
\* await: the call of analyze_response for the response at position index
begin_response_analysis(index) == <<Event(0, "ResponseAnalysisAgent", "begin", index)>>

\* generate_comprehensive_analytics from its call to its first await
BeginAnalytics(requests) ==
    \E responses \in requests :
        /\ job' = [op |-> "generate_comprehensive_analytics", responses |-> responses,
                   pc |-> IF responses = << >> THEN "overall_analysis" ELSE "response_analysis",
                   outcomes |-> << >>, response_analyses |-> << >>,
                   raised |-> FALSE, path |-> None, value |-> None]
        /\ events' = events \o (IF responses = << >>
                                THEN <<Event(0, "OverallAnalysisAgent", "begin", None)>>
                                ELSE begin_response_analysis(1))
        /\ UNCHANGED <<tasks, agent_vars, perf_vars, question_vars, voice_vars, fix_vars>>

\* the coroutine resumes after the await of analyze_response: the entry is
\* appended (the fallback entry in the except clause of the iteration),
\* then the next iteration runs up to its await or, after the last one,
\* generate_overall_analysis runs up to its await; when building
\* session_metadata raises, no Overall-Analysis call is made and the
\* request is answered at once
FinishResponseAnalysis(outcomes) ==
    /\ job # NoCall
    /\ job.pc = "response_analysis"
    /\ \E outcome \in outcomes :
        LET index == Len(job.response_analyses) + 1
            item == analyze_item(index - 1, job.responses[index], PerfConfig, outcome)
            ended == Event(0, "ResponseAnalysisAgent",
                           IF outcome.err THEN "raise" ELSE "end", index)
            all_outcomes == Append(job.outcomes, outcome)
        IN  IF index < Len(job.responses)
            THEN /\ job' = [job EXCEPT !.outcomes = all_outcomes,
                                       !.response_analyses = Append(job.response_analyses, item.entry)]
                 /\ events' = events \o <<ended>> \o begin_response_analysis(index + 1)
                 /\ UNCHANGED analysis_cache
            ELSE IF session_metadata_raises(job.responses)
            THEN \E result \in {generate_comprehensive_analytics(analysis_cache, job.responses,
                                                                 PerfConfig, all_outcomes, RunFailed)} :
                    /\ job' = [job EXCEPT !.outcomes = all_outcomes,
                                          !.response_analyses = Append(job.response_analyses, item.entry),
                                          !.pc = "done", !.raised = result.raised,
                                          !.path = result.path, !.value = result.value]
                    /\ events' = Append(events, ended)
                    /\ analysis_cache' = result.cache
            ELSE /\ job' = [job EXCEPT !.outcomes = all_outcomes,
                                       !.response_analyses = Append(job.response_analyses, item.entry),
                                       !.pc = "overall_analysis"]
                 /\ events' = events \o <<ended, Event(0, "OverallAnalysisAgent", "begin", None)>>
                 /\ UNCHANGED analysis_cache
    /\ UNCHANGED <<p_last, tasks, agent_vars, question_vars, voice_vars, fix_vars>>

\* the coroutine resumes after the await of analyze_overall_performance:
\* the rest of generate_overall_analysis, the cache write and the return,
\* or the except clause of generate_comprehensive_analytics
FinishOverallAnalysis(runs) ==
    /\ job # NoCall
    /\ job.pc = "overall_analysis"
    /\ \E run \in runs :
        \E result \in {generate_comprehensive_analytics(analysis_cache, job.responses,
                                                        PerfConfig, job.outcomes, run)} :
            /\ job' = [job EXCEPT !.pc = "done", !.raised = result.raised,
                                  !.path = result.path, !.value = result.value]
            /\ events' = Append(events,
                            Event(0, "OverallAnalysisAgent",
                                  IF result.path \in {"model", "agent_fallback"} THEN "end" ELSE "raise",
                                  None))
            /\ analysis_cache' = result.cache
    /\ UNCHANGED <<p_last, tasks, agent_vars, question_vars, voice_vars, fix_vars>>

(***************************************************************************)
(* SpecSeq: one orchestrator call at a time, step by step: a few           *)
(* generate_question calls one after the other, or one                     *)
(* generate_comprehensive_analytics call.                                  *)
(***************************************************************************)
\* response lists; a response may carry a duration too large for float
RECURSIVE SeqRequests(_)
SeqRequests(n) ==
    IF n = 0 THEN {<< >>}
    ELSE SeqRequests(n - 1)
         \cup {Append(s, InterviewResponse(n, [len |-> 0, dot |-> FALSE, ithink |-> FALSE], duration)) :
                    s \in {x \in SeqRequests(n - 1) : Len(x) = n - 1}, duration \in {None, Huge}}

SeqOutcomes == {AgentFallbackOutcome, LoopExceptOutcome, ModelOutcome(70), ModelOutcome(150)}

SeqBeginQuestion ==
    /\ job = NoCall
    /\ Len(tasks) < MaxCalls
    /\ \A i \in 1..Len(tasks) : tasks[i].pc = "done"
    /\ BeginQuestion(SessionConfigs, SessionQuestionNumbers)

SeqFinishTopicAnalysis == \E i \in 1..Len(tasks) : FinishTopicAnalysis(i, ConcTopicRuns)

SeqFinishQuestionGeneration == \E i \in 1..Len(tasks) : FinishQuestionGeneration(i, ConcQuestionRuns)

SeqBeginAnalytics ==
    /\ job = NoCall
    /\ tasks = << >>
    /\ BeginAnalytics(SeqRequests(MaxResponses))

NextSeq ==
    \/ SeqBeginQuestion \/ SeqFinishTopicAnalysis \/ SeqFinishQuestionGeneration
    \/ SeqBeginAnalytics \/ FinishResponseAnalysis(SeqOutcomes) \/ FinishOverallAnalysis(RepeatRuns)

SpecSeq == InitState /\ [][NextSeq]_vars

(***************************************************************************)
(* voice-interview-fixes/python_backend/services/voice_interview_service.py *)
(* The enhanced voice service starts one agent process per session and a   *)
(* daemon thread that waits for the process to exit.  The coroutines of    *)
(* the service run on the event-loop thread (end_interview has no await,   *)
(* so nothing of the event loop runs inside it); the monitor threads run   *)
(* beside it and may be scheduled between any two operations on            *)
(* active_agents.  A process is named by its session id.                   *)
(***************************************************************************)
\* del d[k], for a key that is present
DictDel(d, k) == [x \in DOMAIN d \ {k} |-> d[x]]

\* VoiceInterviewService.start_ai_agent: Popen raises, or the process is
\* stored in active_agents and _monitor_agent_process starts its thread
start_ai_agent(agents, session_id, popen_ok) ==
    IF ~popen_ok THEN [raised |-> TRUE, agents |-> agents, monitored |-> FALSE]
    ELSE [raised |-> FALSE, agents |-> DictSet(agents, session_id, session_id), monitored |-> TRUE]

\* VoiceInterviewService.start_voice_interview of the enhanced service;
\* fail names the token call of create_interview_room that raises
Enhanced_start_voice_interview(active, agents, config, participant_name, enable_ai_agent, agent_provider, room_name, fail, popen_ok) ==
    LET room_data == create_interview_room(room_name, config, participant_name, fail)
        session_id == room_name
        interview_session ==
            [session_id |-> session_id, room_name |-> room_name, config |-> config,
             participant_name |-> participant_name, status |-> "waiting",
             provider |-> agent_provider, ai_agent_enabled |-> enable_ai_agent]
        stored == DictSet(active, session_id, interview_session)
        agent == start_ai_agent(agents, session_id, popen_ok)
    IN  IF participant_name = "" \/ room_data.raised
        THEN [raised |-> TRUE, active |-> active, agents |-> agents, monitored |-> FALSE]
        ELSE IF ~enable_ai_agent
        THEN [raised |-> FALSE, active |-> stored, agents |-> agents, monitored |-> FALSE]
        ELSE [raised |-> agent.raised, active |-> stored, agents |-> agent.agents,
              monitored |-> agent.monitored]

\* an end_interview call is between two of its steps
EndInProgress == \E s \in DOMAIN threads : threads[s].end \in {"get_process", "terminate", "del"}

\* a start_voice_interview request, run on the event loop, while fewer than
\* MaxSessions sessions exist
EnhancedStart ==
    /\ ~EndInProgress
    /\ Cardinality(DOMAIN active_interviews) < MaxSessions
    /\ \E room_name \in RoomNames \ DOMAIN active_interviews, participant_name \in {"", "Ada"},
          enable_ai_agent \in BOOLEAN, fail \in {"none", "participant"}, popen_ok \in BOOLEAN :
        \E r \in {Enhanced_start_voice_interview(active_interviews, active_agents, VoiceConfig,
                        participant_name, enable_ai_agent, "google", room_name, fail, popen_ok)} :
            /\ active_interviews' = r.active
            /\ active_agents' = r.agents
            /\ processes' = IF r.monitored THEN DictSet(processes, room_name, "running") ELSE processes
            /\ threads' = IF room_name \in DOMAIN r.active
                          THEN DictSet(threads, room_name,
                                       [monitor |-> IF r.monitored THEN "communicate" ELSE "none",
                                        end |-> "idle", registered |-> FALSE,
                                        result |-> "none"])
                          ELSE threads
            /\ v_last' = [op |-> "enhanced_start_voice_interview", session_id |-> room_name,
                          raised |-> r.raised]
    /\ UNCHANGED <<dispatches, deletions, agent_vars, perf_vars, question_vars, task_vars>>

\* an agent process exits: by itself, or after terminate() or kill()
ProcessExit ==
    /\ \E s \in DOMAIN processes :
        /\ processes[s] = "running"
        /\ processes' = [processes EXCEPT ![s] = "exited"]
    /\ UNCHANGED <<active_agents, threads, voice_vars, agent_vars, perf_vars, question_vars, task_vars>>

\* monitor(): process.communicate() has returned and the thread evaluates
\* `session_id in self.active_agents`
MonitorCheck ==
    /\ \E s \in DOMAIN threads :
        /\ threads[s].monitor = "communicate"
        /\ processes[s] = "exited"
        /\ threads' = [threads EXCEPT ![s].monitor =
                            IF s \in DOMAIN active_agents THEN "del" ELSE "done"]
    /\ UNCHANGED <<active_agents, processes, voice_vars, agent_vars, perf_vars, question_vars, task_vars>>

\* monitor(): `del self.active_agents[session_id]`; the KeyError of a key
\* that is gone is caught by the thread's except clause
MonitorDel ==
    /\ \E s \in DOMAIN threads :
        /\ threads[s].monitor = "del"
        /\ threads' = [threads EXCEPT ![s].monitor = "done"]
        /\ active_agents' = IF s \in DOMAIN active_agents THEN DictDel(active_agents, s)
                            ELSE active_agents
    /\ UNCHANGED <<processes, voice_vars, agent_vars, perf_vars, question_vars, task_vars>>

\* end_interview returns: result is "completed" (after the session's
\* status is set) or "error" (from its outer except clause)
EndReturn(s, result) ==
    /\ threads' = [threads EXCEPT ![s].end = "returned", ![s].result = result]
    /\ active_interviews' = IF result = "completed"
                            THEN [active_interviews EXCEPT ![s].status = "completed"]
                            ELSE active_interviews
    /\ v_last' = [op |-> "end_interview", session_id |-> s, result |-> result]

\* end_interview(session_id) is called: the session lookup and the test
\* `session_id in self.active_agents`; with no agent registered the call
\* runs to its return
EndBegin ==
    /\ ~EndInProgress
    /\ \E s \in RoomNames :
        IF s \notin DOMAIN active_interviews
        THEN /\ v_last' = [op |-> "end_interview", session_id |-> s, result |-> "Session not found"]
             /\ UNCHANGED <<active_interviews, threads>>
        ELSE /\ threads[s].end = "idle"
             /\ IF s \in DOMAIN active_agents
                THEN /\ threads' = [threads EXCEPT ![s].end = "get_process", ![s].registered = TRUE]
                     /\ UNCHANGED <<active_interviews, v_last>>
                ELSE EndReturn(s, "completed")
    /\ UNCHANGED <<active_agents, processes, dispatches, deletions,
                   agent_vars, perf_vars, question_vars, task_vars>>

\* end_interview: `process = self.active_agents[session_id]`, outside the
\* inner try: the KeyError of a key that is gone reaches the outer except
EndGetProcess ==
    /\ \E s \in DOMAIN threads :
        /\ threads[s].end = "get_process"
        /\ IF s \in DOMAIN active_agents
           THEN /\ threads' = [threads EXCEPT ![s].end = "terminate"]
                /\ UNCHANGED <<active_interviews, v_last>>
           ELSE EndReturn(s, "error")
    /\ UNCHANGED <<active_agents, processes, dispatches, deletions,
                   agent_vars, perf_vars, question_vars, task_vars>>

\* end_interview: process.terminate() and process.wait(timeout=5).  The
\* process has exited when wait returns; on TimeoutExpired it is killed
\* and exits later.
EndTerminate ==
    /\ \E s \in DOMAIN threads, in_time \in BOOLEAN :
        /\ threads[s].end = "terminate"
        /\ threads' = [threads EXCEPT ![s].end = "del"]
        /\ processes' = IF in_time THEN [processes EXCEPT ![s] = "exited"] ELSE processes
    /\ UNCHANGED <<active_agents, voice_vars, agent_vars, perf_vars, question_vars, task_vars>>

\* end_interview: `del self.active_agents[session_id]` in the finally
\* clause; its KeyError leaves the inner try and reaches the outer except;
\* otherwise the status is set and the completed result returned
EndDel ==
    /\ \E s \in DOMAIN threads :
        /\ threads[s].end = "del"
        /\ IF s \in DOMAIN active_agents
           THEN /\ active_agents' = DictDel(active_agents, s)
                /\ EndReturn(s, "completed")
           ELSE /\ UNCHANGED active_agents
                /\ EndReturn(s, "error")
    /\ UNCHANGED <<processes, dispatches, deletions, agent_vars, perf_vars, question_vars, task_vars>>

(***************************************************************************)
(* SpecFix: sessions of the enhanced voice service, their agent processes, *)
(* monitor threads and end_interview calls.                                *)
(***************************************************************************)
NextFix ==
    \/ EnhancedStart \/ ProcessExit \/ MonitorCheck \/ MonitorDel
    \/ EndBegin \/ EndGetProcess \/ EndTerminate \/ EndDel

SpecFix == InitState /\ [][NextFix]_vars

(***************************************************************************)
(* Properties of BaseAgent.execute (SpecAgent).                            *)
(***************************************************************************)
InRange(x) == x >= 0 /\ x <= 100

\* C1: for every agent variant and every input, execute never raises: when
\* the model call fails the caller receives the value of
\* generate_fallback_result, also when the Overall-Analysis input holds
\* per-response scores outside 0..100.
C1_ExecuteNeverRaises ==
    a_last.op = "execute" => ~a_last.raised

\* C7: the Response-Analysis fallback returns all six scores within [0,100]
\* for every response text, the empty one and those longer than 10,000
\* characters included.
C7_FallbackScoresInRange ==
    (a_last.op = "execute" /\ a_last.agent = "ResponseAnalysisAgent" /\ a_last.from_fallback)
        => /\ ~a_last.raised
           /\ DOMAIN a_last.value.response_analysis = ScoreKeys
           /\ \A k \in ScoreKeys : InRange(a_last.value.response_analysis[k])

C7_Witness ==
    /\ a_last.op = "execute" /\ a_last.agent = "ResponseAnalysisAgent" /\ a_last.from_fallback
    /\ a_last.input.response.len > 10000
    /\ a_last.value.response_analysis["clarity"] = 95
    /\ a_last.value.response_analysis["communication"] = 90

(***************************************************************************)
(* Properties of generate_comprehensive_analytics (SpecPerf).              *)
(***************************************************************************)
Analysed == p_last.op = "generate_comprehensive_analytics"

\* C4: called with an empty response list, generate_comprehensive_analytics
\* returns the fixed default analytics (overall_score 70, performance_level
\* "fair") without error, whether the Overall-Analysis model call succeeds
\* or fails.
C4_EmptyListGivesDefault ==
    (Analysed /\ p_last.responses = << >>)
        => /\ ~p_last.raised
           /\ p_last.value.overall_score = 70
           /\ p_last.value.performance_level = "fair"

\* C5: generate_comprehensive_analytics never raises and returns analytics
\* whose overall_score and six aggregate scores lie in [0,100], whatever the
\* responses, the model failures and the (schema-valid) model results.
C5_AnalyticsTotalAndBounded ==
    Analysed
        => /\ ~p_last.raised
           /\ InRange(p_last.value.overall_score)
           /\ \A k \in ScoreKeys : InRange(p_last.value.response_analysis[k])

\* a per-response score above 100 makes the agent fallback and then the
\* orchestrator-local fallback fail validation; the last fallback answers
C5_Witness ==
    /\ Analysed /\ p_last.path = "final_fallback" /\ ~p_last.raised
    /\ p_last.overall_run_failed
    /\ \E i \in 1..Len(p_last.response_analyses) : p_last.response_analyses[i].analysis.score > 100
    /\ p_last.value.overall_score = 75

\* C6: in every analytics object produced without the model,
\* performance_level is the threshold function of overall_score (>= 85
\* excellent, >= 70 good, >= 60 fair, else needs_improvement).
C6_LevelIsThresholdOfScore ==
    (Analysed /\ p_last.path # "model" /\ ~p_last.raised)
        => p_last.value.performance_level = performance_level_of(p_last.value.overall_score)

\* the per-response overall scores the Overall-Analysis step was given
PerResponseScores ==
    [i \in 1..Len(p_last.response_analyses) |-> p_last.response_analyses[i].analysis.score]

OverallFellBack ==
    /\ Analysed /\ ~p_last.raised
    /\ p_last.path \in {"agent_fallback", "local_fallback"}
    /\ p_last.responses # << >>

C8_OneEntryPerResponse ==
    Analysed =>
        /\ Len(p_last.response_analyses) = Len(p_last.responses)
        /\ Len(p_last.item_calls) = Len(p_last.responses)
        /\ \A i \in 1..Len(p_last.responses) :
            LET r == p_last.responses[i]
                e == p_last.response_analyses[i]
                o == p_last.outcomes[i]
            IN  /\ e.question_id = r.question_id
                /\ e.question = r.question
                /\ e.response = r.response
                /\ p_last.item_calls[i].question_number = i
                /\ p_last.item_calls[i].response = r.response
                /\ o.err => /\ "fallback" \in DOMAIN e.metadata
                            /\ e.analysis.score = 75
                /\ ~o.err => "fallback" \notin DOMAIN e.metadata
                /\ (~o.err /\ ~o.run.failed) => e.analysis.score = o.run.data.score

\* the second of three items fails, the first and the third do not
C8_Witness ==
    /\ Analysed /\ Len(p_last.responses) = 3
    /\ ~p_last.outcomes[1].err /\ p_last.outcomes[2].err /\ ~p_last.outcomes[3].err
    /\ p_last.response_analyses[1].analysis.score = 70
    /\ p_last.response_analyses[2].analysis.score = 75
    /\ p_last.response_analyses[3].analysis.score = 150

(***************************************************************************)
(* Properties of one question-orchestrator request (SpecAsk).              *)
(***************************************************************************)
AskedQuestion == q_last.op = "generate_question"
AskedFollowup == q_last.op = "generate_followup"

\* C2: for every valid config and question_number >= 1, generate_question
\* returns a non-empty string and raises nothing, when the model fails and
\* when it succeeds with any schema-valid QuestionResult.
C2_QuestionNonEmpty ==
    AskedQuestion => (~q_last.raised /\ ~IsEmptyText(q_last.question))

\* C9 as claimed: generate_followup never raises, and whenever an error
\* occurs while producing the follow-up, a failure of its model call
\* included, it returns the literal "Can you elaborate on that point a bit
\* more?".
C9_AnyErrorGivesLiteral ==
    AskedFollowup
        => /\ ~q_last.raised
           /\ (q_last.scenario.err # "none"
               \/ (q_last.question_invoked /\ q_last.scenario.qg_run.failed))
                  => q_last.question = FollowupLiteral

\* C9 amended: generate_followup never raises; it returns the literal
\* exactly when an exception reaches its except clause; a failure of the
\* Question-Generation model call is absorbed by the agent, and the
\* follow-up is then a template of the agent's fallback table with the
\* config's topic.
C9_LiteralOnlyOnException ==
    AskedFollowup
        => /\ ~q_last.raised
           /\ q_last.scenario.err # "none" => q_last.question = FollowupLiteral
           /\ q_last.scenario.err = "none" => q_last.question # FollowupLiteral
           /\ (q_last.scenario.err = "none" /\ q_last.scenario.qg_run.failed)
                  => /\ q_last.question.kind = "agent_template"
                     /\ q_last.question.topic = q_last.config.topic
           /\ (q_last.scenario.err = "none" /\ ~q_last.scenario.qg_run.failed)
                  => q_last.question = q_last.scenario.qg_run.data.question

C9_Witness ==
    /\ AskedFollowup /\ q_last.scenario.err = "none"
    /\ q_last.question_invoked /\ q_last.scenario.qg_run.failed
    /\ q_last.question.kind = "agent_template"
    /\ q_last.question # FollowupLiteral

\* both model calls of the request fail and no other exception is raised
ForcedModelFailure ==
    /\ q_last.scenario.ta_run.failed /\ q_last.scenario.qg_run.failed
    /\ q_last.scenario.err = "none"

\* C10: with the model forced to fail, generate_question returns a template
\* of the agent's fallback table: the table of the config's style
\* (technical for the styles that have none), the bucket of its
\* experience_level (fresher easy, junior and mid-level medium, senior and
\* lead-manager hard), the config's topic interpolated; for React /
\* technical / junior and question 1, a technical medium template about
\* React.
C10_ForcedFailureTemplate ==
    (AskedQuestion /\ ForcedModelFailure)
        => LET q == q_last.question
               c == q_last.config
           IN  /\ q.kind = "agent_template"
               /\ q.topic = c.topic
               /\ q.index \in 0..(TemplatesPerBucket - 1)
               /\ q.table = (IF c.style \in {"technical", "hr", "behavioral"}
                             THEN c.style ELSE "technical")
               /\ c.experience_level = "fresher" => q.bucket = "easy"
               /\ c.experience_level \in {"junior", "mid-level"} => q.bucket = "medium"
               /\ c.experience_level \in {"senior", "lead-manager"} => q.bucket = "hard"

C10_Witness ==
    /\ AskedQuestion /\ ForcedModelFailure
    /\ q_last.config = InterviewConfig(<<"React">>, "technical", "junior")
    /\ q_last.question_number = 1
    /\ q_last.question = Question("agent_template", "technical", "medium", 1, <<"React">>, None)

(***************************************************************************)
(* Properties of sessions (Spec).                                          *)
(***************************************************************************)
\* C3: over the generate_question calls made for one session id since the
\* last clear_session, the Topic-Analysis agent is invoked at most once,
\* and a call after the first is answered from the cache; the first
\* analysis may come from the model or from the fallback.  (Calls whose
\* step 1 ended in the orchestrator's except clause produced no analysis
\* and are set aside.)
C3_TopicAnalysisAtMostOnce ==
    \A sid \in DOMAIN session_log :
        session_log[sid].faults = 0
            => /\ session_log[sid].topic_calls <= 1
               /\ (AskedQuestion /\ get_session_id(q_last.config) = sid
                   /\ session_log[sid].questions > 1) => ~q_last.topic_invoked

\* the second generate_question of a session, asked under another spelling
\* of the topic, finds the analysis cached by the first
C3_Witness ==
    /\ AskedQuestion /\ ~q_last.topic_invoked
    /\ q_last.config.topic = <<"react">>
    /\ LET sid == get_session_id(q_last.config)
       IN  /\ sid \in DOMAIN session_log
           /\ session_log[sid].questions = 2
           /\ session_log[sid].topic_calls = 1
           /\ session_log[sid].faults = 0
           /\ topic_cache_key(sid) \in DOMAIN session_memory

\* the session-memory keys a call for session_id may write
OwnKeys(session_id) == {session_id, topic_cache_key(session_id)}

\* C12: a generate_question or generate_followup call for one session id,
\* whatever its outcome, leaves the session-memory entries of every other
\* session id as they were: none is changed, removed or created.
C12_OtherSessionsUnchanged ==
    [][(q_last'.op \in {"generate_question", "generate_followup"})
        => LET own == OwnKeys(get_session_id(q_last'.config))
           IN  /\ \A k \in DOMAIN session_memory \ own :
                    k \in DOMAIN session_memory' /\ session_memory'[k] = session_memory[k]
               /\ \A k \in DOMAIN session_memory' \ own : k \in DOMAIN session_memory]_vars

\* a question was generated for the session whose id has another session's
\* id as a prefix, after that other session had cached its analysis and
\* its last question
C12_Witness ==
    /\ AskedQuestion /\ n_calls = 2
    /\ q_last.config.topic = <<"React", " ", "technical", " ", "senior">>
    /\ LET sid == get_session_id(q_last.config)
           other == get_session_id(InterviewConfig(<<"React">>, "technical", "senior"))
       IN  /\ sid \in DOMAIN session_memory
           /\ topic_cache_key(sid) \in DOMAIN session_memory
           /\ other \in DOMAIN session_log /\ session_log[other].questions = 1
           /\ other \in DOMAIN session_memory
           /\ topic_cache_key(other) \in DOMAIN session_memory
           /\ session_memory[other].question_number = 2

\* k is the topic-analysis cache key of some session id
IsTopicKey(k) == Len(k) >= 1 /\ k[Len(k)] = "_topic_analysis"

\* C13: per session id the topic-analysis cache is a two-state machine: a
\* first generate_question / generate_followup (whose step 1 raises nothing)
\* caches an analysis, a later one leaves the cached value as it is and
\* invokes no Topic-Analysis, and a cached analysis disappears only in a
\* clear_session for its own session id.
C13_TwoStateCache ==
    [][/\ (q_last'.op \in {"generate_question", "generate_followup"})
            => LET key == topic_cache_key(get_session_id(q_last'.config))
               IN  /\ (key \notin DOMAIN session_memory /\ q_last'.scenario.err # "topic_analysis")
                        => (key \in DOMAIN session_memory' /\ q_last'.topic_invoked)
                   /\ key \in DOMAIN session_memory
                        => /\ key \in DOMAIN session_memory'
                           /\ session_memory'[key] = session_memory[key]
                           /\ ~q_last'.topic_invoked
       /\ \A k \in DOMAIN session_memory :
            (IsTopicKey(k) /\ k \notin DOMAIN session_memory')
                => /\ q_last'.op = "clear_session"
                   /\ k = topic_cache_key(q_last'.session_id)]_vars

\* C14: every analytics object generate_comprehensive_analytics returns
\* that the model did not produce has metadata["fallback"] = true and
\* metadata["total_responses"] = the number of input responses.
C14_FallbackFlagAndCount ==
    (Analysed /\ ~p_last.raised /\ p_last.path # "model")
        => /\ "fallback" \in DOMAIN p_last.value.metadata
           /\ p_last.value.metadata.fallback = TRUE
           /\ p_last.value.metadata.total_responses = Len(p_last.responses)

(***************************************************************************)
(* Properties of the voice endpoints (SpecVoice).                          *)
(***************************************************************************)
StartedVoice == v_last.op = "start_voice_interview"
EndedVoice == v_last.op = "end_voice_interview"

\* the rooms the body of the last end request names
NamedRooms == {v_last.body.room_name, v_last.body.config.room_name} \ {None}

\* C15: a voice-interview-end request for a session that was started
\* successfully causes a room-deletion request for that session's room and
\* is acknowledged (status 200).
C15_EndDeletesRoomAndAcks ==
    (EndedVoice /\ NamedRooms # {} /\ NamedRooms \subseteq DOMAIN active_interviews)
        => /\ v_last.status = 200
           /\ NamedRooms \subseteq v_last.delete_calls

\* C16: the descriptor returned by voice-interview-start has
\* ai_agent_enabled true exactly when an agent dispatch was issued for its
\* room during the start; with enable_ai_agent false none is issued; a
\* start makes at most one provisioning call and one dispatch call.
C16_FlagIffDispatched ==
    StartedVoice
        => /\ v_last.provisioning_calls <= 1
           /\ Len(v_last.dispatch_calls) <= 1
           /\ ~v_last.request.enable_ai_agent => v_last.dispatch_calls = << >>
           /\ v_last.status = 200
                => (v_last.session.ai_agent_enabled
                        <=> v_last.dispatch_calls = <<v_last.session.room_name>>)

\* C17: a voice-interview-start in which room creation, credential
\* issuance or the agent dispatch fails is reported as failed and leaves
\* active_interviews as it was.
C17_FailedStartLeavesNoSession ==
    [][(v_last'.op = "start_voice_interview"
        /\ (v_last'.fail # "none"
            \/ (v_last'.dispatch_calls # << >> /\ ~v_last'.dispatch_ok)))
        => /\ v_last'.status = 500
           /\ active_interviews' = active_interviews]_vars

BuiltSpec == AskedQuestion /\ q_last.path # "outer_canned"

\* C19: the difficulty of the question specification depends on
\* question_number and experience_level only: easy for question 1, medium
\* for question 2, and from question 3 on medium for fresher and hard for
\* junior, mid-level, senior and lead-manager.
C19_DifficultyFunction ==
    BuiltSpec
        => LET n == q_last.question_number
               level == q_last.config.experience_level
           IN  /\ n <= 1 => q_last.question_spec.difficulty = "easy"
               /\ n = 2 => q_last.question_spec.difficulty = "medium"
               /\ (n > 2 /\ level = "fresher") => q_last.question_spec.difficulty = "medium"
               /\ (n > 2 /\ level \in {"junior", "mid-level", "senior", "lead-manager"})
                    => q_last.question_spec.difficulty = "hard"

\* a third question for a fresher
C19_Witness ==
    /\ BuiltSpec /\ q_last.question_number = 3
    /\ q_last.config.experience_level = "fresher"
    /\ q_last.question_spec.difficulty = "medium"

\* the topic analysis the last generate_question worked with: the one it
\* left in the session's cache
UsedTopicAnalysis == session_memory[topic_cache_key(get_session_id(q_last.config))]

\* C20: in the question specification focus_area is entry question_number
\* of the analysis's focus_areas, the last entry when there are fewer
\* ("General Knowledge" when there are none); concepts are the first two
\* main_concepts ("Core Concepts" when there are none); question_type is
\* scenario for behavioral, problem-solving for case-study, otherwise
\* theoretical for question 1 and practical after it; avoid_topics is
\* previous_questions.
C20_SpecFields ==
    BuiltSpec
        => LET n == q_last.question_number
               qs == q_last.question_spec
               fa == UsedTopicAnalysis.focus_areas
               mc == UsedTopicAnalysis.main_concepts
               style == q_last.config.style
           IN  /\ fa = << >> => qs.focus_area = "General Knowledge"
               /\ (fa # << >> /\ n <= Len(fa)) => qs.focus_area = fa[n]
               /\ (fa # << >> /\ n > Len(fa)) => qs.focus_area = fa[Len(fa)]
               /\ mc = << >> => qs.concepts = <<"Core Concepts">>
               /\ Len(mc) = 1 => qs.concepts = mc
               /\ Len(mc) >= 2 => qs.concepts = <<mc[1], mc[2]>>
               /\ style = "behavioral" => qs.question_type = "scenario"
               /\ style = "case-study" => qs.question_type = "problem-solving"
               /\ (style \notin {"behavioral", "case-study"} /\ n > 1)
                    => qs.question_type = "practical"
               /\ (style \notin {"behavioral", "case-study"} /\ n = 1)
                    => qs.question_type = "theoretical"
               /\ qs.avoid_topics = q_last.previous_questions

\* a third question on an analysis with two focus areas and three concepts
C20_Witness ==
    /\ BuiltSpec /\ q_last.question_number = 3
    /\ q_last.config.style = "technical"
    /\ UsedTopicAnalysis.focus_areas = <<"Hooks", "Rendering">>
    /\ q_last.question_spec.focus_area = "Rendering"
    /\ q_last.question_spec.concepts = <<"Hooks", "State">>
    /\ q_last.question_spec.question_type = "practical"
    /\ q_last.question_spec.avoid_topics = <<1, 2>>

(***************************************************************************)
(* Properties of the session memory after generate_question (SpecAsk).     *)
(***************************************************************************)
\* C21: whenever generate_question(config, question_number = n) returns
\* text q, the session-memory entry of the config's session id afterwards
\* holds last_question = q and question_number = n, on every return path,
\* the orchestrator's canned fallback question included.
C21_MemoryHoldsReturnedQuestion ==
    AskedQuestion
        => LET sid == get_session_id(q_last.config)
           IN  /\ sid \in DOMAIN session_memory
               /\ session_memory[sid].last_question = q_last.question
               /\ session_memory[sid].question_number = q_last.question_number

(***************************************************************************)
(* Properties of the analysis cache (SpecRepeat).                          *)
(***************************************************************************)
\* C22: after every generate_comprehensive_analytics call that returns
\* analytics a, analysis_cache maps the session id derived from (topic,
\* style, first-response timestamp) to a; and a request whose session id is
\* already cached is answered with the cached entry, with no agent invoked.
C22_CachedAndServedFromCache ==
    [][(p_last'.op = "generate_comprehensive_analytics" /\ p_last' # p_last /\ ~p_last'.raised)
        => LET sid == p_last'.session_id
           IN  /\ sid \in DOMAIN analysis_cache'
               /\ analysis_cache'[sid] = p_last'.value
               /\ sid \in DOMAIN analysis_cache
                    => /\ p_last'.value = analysis_cache[sid]
                       /\ p_last'.item_calls = << >>
                       /\ p_last'.overall_calls = << >>]_vars

(***************************************************************************)
(* Properties of the session utilities (Spec).                             *)
(***************************************************************************)
\* the session ids that have at least one entry in session memory
SessionsWithEntries ==
    {sid \in {get_session_id(c) : c \in SessionConfigs} : OwnKeys(sid) \cap DOMAIN session_memory # {}}

\* C23: after any sequence of generate_question, generate_followup and
\* clear_session calls, get_session_stats reports active_sessions = the
\* number of distinct session ids with at least one entry in session
\* memory, and total_cached_items = the number of entries.
C23_StatsCountSessions ==
    q_last.op = "get_session_stats"
        => /\ q_last.stats.active_sessions = Cardinality(SessionsWithEntries)
           /\ q_last.stats.total_cached_items = Cardinality(DOMAIN session_memory)

(***************************************************************************)
(* Properties of concurrent generate_question calls (SpecConc).            *)
(***************************************************************************)
ConcKey == topic_cache_key(<<"react", "_", "technical", "_", "senior">>)

\* every coroutine started has returned
AllReturned == tasks # << >> /\ \A i \in 1..Len(tasks) : tasks[i].pc = "done"

\* the analyses written to the cache, in the order their calls completed
\* the analysis
AnalysesWritten == SelectSeq(events, LAMBDA e : e.agent = "TopicAnalysisAgent" /\ e.kind = "end")

\* C24: when k generate_question calls for one session id run concurrently
\* from a cold cache, interleaved at their awaits, the Topic-Analysis agent
\* is invoked between 1 and k times; no call raises or returns empty text
\* (each returns what its own Question-Generation outcome gives); and once
\* all have returned the cache holds exactly one topic analysis for the
\* id, the one written by the call that completed its analysis last.
C24_ConcurrentCallsLastWriterWins ==
    /\ tasks # << >>
        => Cardinality({i \in 1..Len(tasks) : tasks[i].topic_invoked}) \in 1..Len(tasks)
    /\ \A i \in 1..Len(tasks) :
        tasks[i].pc = "done"
            => /\ ~tasks[i].raised
               /\ ~IsEmptyText(tasks[i].question)
               /\ tasks[i].qg_run_failed => tasks[i].question.kind = "agent_template"
               /\ ~tasks[i].qg_run_failed => tasks[i].question = SessionQuestionData.data.question
    /\ AllReturned
        => /\ {k \in DOMAIN session_memory : IsTopicKey(k)} = {ConcKey}
           /\ AnalysesWritten # << >>
           /\ session_memory[ConcKey] = AnalysesWritten[Len(AnalysesWritten)].data

\* two calls both missed the cold cache; the second completed its analysis
\* (the fallback's) first, the first (the model's) last, and the cache
\* holds the model's
C24_Witness ==
    /\ AllReturned /\ Len(tasks) = 2
    /\ tasks[1].topic_invoked /\ tasks[2].topic_invoked
    /\ Len(AnalysesWritten) = 2
    /\ AnalysesWritten[1].call = 2 /\ AnalysesWritten[2].call = 1
    /\ AnalysesWritten[1].data # AnalysesWritten[2].data
    /\ session_memory[ConcKey] = SessionTopicData.data

(***************************************************************************)
(* Properties of the order of agent invocations (SpecSeq).                 *)
(***************************************************************************)
\* the events of one coroutine
CallEvents(call) == SelectSeq(events, LAMBDA e : e.call = call)

\* the invocations of one coroutine do not overlap: each event that begins
\* one is followed by the event that ends the same one before the next
\* begins
OneAtATime(L) ==
    \A j \in 1..Len(L) :
        /\ j % 2 = 1 => L[j].kind = "begin"
        /\ j % 2 = 0 => /\ L[j].kind \in {"end", "raise"}
                        /\ L[j].agent = L[j - 1].agent

\* C25: within one orchestrator call the agent invocations are strictly
\* sequential.  In generate_question the Topic-Analysis step (cache hit or
\* agent call) has completed when Question-Generation begins.  In
\* generate_comprehensive_analytics the Response-Analysis invocations are
\* made one at a time in input order, each ended before the next begins,
\* and the Overall-Analysis invocation begins only after the last has
\* ended.
C25_InvocationsSequential ==
    /\ \A c \in 1..Len(tasks) :
        LET L == CallEvents(c)
        IN  /\ OneAtATime(L)
            /\ Len(L) <= 4
            /\ \A j \in 1..Len(L) :
                L[j].agent = "QuestionGenerationAgent" /\ L[j].kind = "begin"
                    => \/ j = 1 /\ ~tasks[c].topic_invoked
                             /\ tasks[c].topic_analysis
                                    = session_memory[topic_cache_key(get_session_id(tasks[c].config))]
                       \/ j = 3 /\ L[2].agent = "TopicAnalysisAgent" /\ L[2].kind = "end"
                             /\ tasks[c].topic_analysis = L[2].data
    /\ job # NoCall
        => LET L == CallEvents(0)
               n == Len(job.responses)
           IN  /\ OneAtATime(L)
               /\ Len(L) <= 2 * n + 2
               /\ \A j \in 1..Len(L) :
                    /\ j <= 2 * n => /\ L[j].agent = "ResponseAnalysisAgent"
                                     /\ L[j].data = (j + 1) \div 2
                    /\ j > 2 * n => L[j].agent = "OverallAnalysisAgent"
               /\ \A i \in 1..Len(job.response_analyses) :
                    job.response_analyses[i].question_id = job.responses[i].question_id
               /\ job.pc = "done" => Len(job.response_analyses) = n

\* an analytics call over three responses has returned after four
\* invocations, the second of which ended in the loop's except clause
C25_Witness ==
    /\ job # NoCall
    /\ job.pc = "done" /\ Len(job.responses) = 3
    /\ Len(CallEvents(0)) = 8
    /\ CallEvents(0)[4].kind = "raise"
    /\ CallEvents(0)[7].agent = "OverallAnalysisAgent"
    /\ CallEvents(0)[8].kind = "end"

(***************************************************************************)
(* Properties of the Response-Analysis fallback score (SpecAgent).         *)
(***************************************************************************)
\* the last call was answered by the Response-Analysis fallback
ResponseFellBack ==
    /\ a_last.op = "execute" /\ a_last.agent = "ResponseAnalysisAgent"
    /\ a_last.from_fallback /\ ~a_last.raised

\* the sum of the six scores returned in response_analysis
ReturnedSum ==
    LET ra == a_last.value.response_analysis
    IN  ra["clarity"] + ra["structure"] + ra["technical"]
        + ra["communication"] + ra["confidence"] + ra["relevance"]

\* C26 as claimed: in every Response-Analysis fallback result, score is
\* the unweighted mean of the six scores returned in response_analysis,
\* rounded to the nearest integer.
C26_ScoreIsRoundedMeanOfReturned ==
    ResponseFellBack => a_last.value.score = Round(ReturnedSum, 6)

\* C26 amended: score is the mean of the six returned scores rounded to
\* the nearest integer whenever that mean is not halfway between two
\* integers; when it is halfway, score is one of the two neighbouring
\* integers (the score is rounded from the six values before they are
\* rounded themselves).
C26_ScoreIsMeanUpToTies ==
    ResponseFellBack
        => /\ ReturnedSum % 6 # 3 => a_last.value.score = Round(ReturnedSum, 6)
           /\ ReturnedSum % 6 = 3
                => a_last.value.score \in {ReturnedSum \div 6, ReturnedSum \div 6 + 1}

\* a 25-character technical answer holding "i think": the returned scores
\* are 70, 65, 70, 66, 65, 75 (mean 68.5) and the score is 69
C26_Witness ==
    /\ ResponseFellBack
    /\ a_last.input.response.len = 25 /\ a_last.input.response.ithink
    /\ a_last.input.config.style = "technical"
    /\ ReturnedSum = 411
    /\ a_last.value.score = 69

(***************************************************************************)
(* Properties of question_reviews (SpecPerf).                              *)
(***************************************************************************)
\* C27: every fallback-derived PerformanceAnalytics returned by
\* generate_comprehensive_analytics for a non-empty response list has
\* question_reviews with exactly one entry per input response, in input
\* order, entry i carrying the question_id, question and response of
\* response i.
C27_ReviewPerResponse ==
    (Analysed /\ ~p_last.raised /\ p_last.path # "model" /\ p_last.responses # << >>)
        => LET question_reviews == p_last.value.question_reviews
           IN  /\ Len(question_reviews) = Len(p_last.responses)
               /\ \A i \in 1..Len(question_reviews) :
                    /\ question_reviews[i].question_id = p_last.responses[i].question_id
                    /\ question_reviews[i].question = p_last.responses[i].question
                    /\ question_reviews[i].response = p_last.responses[i].response

(***************************************************************************)
(* Properties of the fallback question's difficulty (SpecAsk).             *)
(***************************************************************************)
\* the Question-Generation call of the last generate_question fell back
QuestionFellBack == AskedQuestion /\ q_last.path = "agent_fallback"

\* C28 as claimed: whenever the Question-Generation call made by
\* generate_question falls back, the difficulty of the fallback question
\* (its metadata difficulty and its template bucket) equals the difficulty
\* of the question specification built for that question_number and
\* experience_level.
C28_FallbackDifficultyIsSpecDifficulty ==
    QuestionFellBack
        => /\ q_last.metadata.difficulty = q_last.question_spec.difficulty
           /\ q_last.question.bucket = q_last.question_spec.difficulty

\* C28 amended: the fallback question's difficulty (metadata and bucket
\* alike) is the one of the experience level (fresher easy, junior and
\* mid-level medium, senior and lead-manager hard), whatever the question
\* specification says; it equals the specification's difficulty exactly
\* for fresher at question 1, junior and mid-level at question 2, and
\* senior and lead-manager from question 3 on.
C28_FallbackDifficultyByLevel ==
    QuestionFellBack
        => LET n == q_last.question_number
               level == q_last.config.experience_level
               difficulty == q_last.metadata.difficulty
           IN  /\ q_last.question.bucket = difficulty
               /\ level = "fresher" => difficulty = "easy"
               /\ level \in {"junior", "mid-level"} => difficulty = "medium"
               /\ level \in {"senior", "lead-manager"} => difficulty = "hard"
               /\ difficulty = q_last.question_spec.difficulty
                    <=> \/ level = "fresher" /\ n <= 1
                        \/ level \in {"junior", "mid-level"} /\ n = 2
                        \/ level \in {"senior", "lead-manager"} /\ n > 2

\* the first question for a senior: the specification says easy, the
\* fallback question is a hard one
C28_Witness ==
    /\ QuestionFellBack
    /\ q_last.config.experience_level = "senior" /\ q_last.question_number = 1
    /\ q_last.question_spec.difficulty = "easy"
    /\ q_last.metadata.difficulty = "hard" /\ q_last.question.bucket = "hard"

(***************************************************************************)
(* Properties of clear_session (Spec).                                     *)
(***************************************************************************)
\* C29: clear_session(s) removes every session-memory entry of session id
\* s and leaves every entry of a different session id as it was, for all
\* session ids valid configs produce, those that have s as a string prefix
\* included.
C29_ClearRemovesOwnEntriesOnly ==
    [][(q_last'.op = "clear_session")
        => LET own == OwnKeys(q_last'.session_id)
           IN  /\ \A k \in own : k \notin DOMAIN session_memory'
               /\ \A k \in DOMAIN session_memory \ own :
                    k \in DOMAIN session_memory' /\ session_memory'[k] = session_memory[k]]_vars

(***************************************************************************)
(* Properties of end_interview in the enhanced voice service (SpecFix).    *)
(***************************************************************************)
\* C30: end_interview on an existing session whose agent process is
\* registered returns a completed result, sets the session's status to
\* "completed" and leaves no entry for the session in active_agents,
\* under every interleaving with the monitor thread that removes the same
\* entry when the process exits.
C30_EndCompletesUnderInterleaving ==
    \A s \in DOMAIN threads :
        (threads[s].end = "returned" /\ threads[s].registered)
            => /\ threads[s].result = "completed"
               /\ active_interviews[s].status = "completed"
               /\ s \notin DOMAIN active_agents

====
